---- MODULE Spec2Model ----
(***************************************************************************)
(* A model of todord (src/todord.py): the Task audit trail, the            *)
(* StorageManager snapshot layer, the ConnectionMonitor with the event     *)
(* handlers of main() that feed it, and the commands of the two cogs.      *)
(*                                                                         *)
(* Strings that the code slices, concatenates or tests with startswith /   *)
(* endswith are modelled as sequences of pieces: user text is a sequence   *)
(* of one-character strings, literal parts of an f-string are one piece    *)
(* each.  Concatenation is \o, len() of user text is Len, s[:n] is a       *)
(* prefix.  The clock counts whole seconds, the resolution strftime keeps: *)
(* calls made with no tick between them fall within the same second.       *)
(***************************************************************************)
EXTENDS Integers, Sequences, FiniteSets, TLC

VARIABLES
    now,                   \* wall clock, in seconds (datetime.now())
    \* ---- one Task under test
    task,                  \* the Task object
    calls,                 \* number of add_log / set_status / set_title calls made
    lastCall,              \* the last Task call: [op, actor]
    \* ---- ConnectionMonitor
    max_retries,
    consecutive_failures,
    total_failures,
    failure_types,         \* dict kind -> count (a function on the kinds seen)
    first_failure_time,    \* <<>> is None, <<t>> is a datetime
    last_failure_time,
    verdicts,              \* what connection_failed returned, call by call, in this streak
    monLast,               \* the last monitor call
    \* ---- StorageManager
    todo_lists,            \* dict channel_id -> list of Task
    files,                 \* the file system seen from data_dir: path -> [content, ctime]
    saved,                 \* the successful save() calls so far: <<[name, content], ...>>
    stLast,                \* the last storage call, with what it returned
    nOps,                  \* operations that grew the store or the directory
    fault,                 \* what is wrong with data_dir or the disk, "none" if nothing
    \* ---- the commands of the TodoList and BotManagement cogs
    cmdLast,               \* the last command: its arguments and what it did, in order
    \* ---- main(): the event handlers around the ConnectionMonitor
    running,               \* FALSE once sys.exit was called
    mainLast,              \* the last handler run and what it did, in order
    \* ---- the event loop: the command handlers in flight
    handlers,              \* handler -> [at, cmd, channel_id, task_number, target, ...]
    holder                \* the handler that holds the thread, 0 when none does

taskVars == <<task, calls, lastCall>>
monVars == <<max_retries, consecutive_failures, total_failures, failure_types,
             first_failure_time, last_failure_time, verdicts, monLast>>
stVars == <<todo_lists, files, saved, stLast, nOps, fault>>
botVars == <<cmdLast>>
mainVars == <<running, mainLast>>
loopVars == <<handlers, holder>>
vars == <<now, taskVars, monVars, stVars, botVars, mainVars, loopVars>>

(***************************************************************************)
(* Bounds of the model                                                     *)
(***************************************************************************)
MaxTime == 1
MaxCalls == 2
MaxFailures == 4
MaxRetriesBound == 3
MaxOps == 3
MaxCmds == 3

(***************************************************************************)
(* Inputs                                                                  *)
(***************************************************************************)
Actors == {"alice", "bob"}
PreviewLen == 30
ShortText == <<"f", "i", "x">>
LongText == [i \in 1..(PreviewLen + 1) |-> "x"]
Titles == {ShortText, LongText}
LogTexts == {<<"o", "k">>, LongText}
Statuses == {"pending", "done"}

Min(a, b) == IF a < b THEN a ELSE b
Digit == <<"0", "1", "2", "3", "4", "5", "6", "7", "8", "9">>

\* datetime.strftime("%Y-%m-%d %H:%M:%S")
StrftimeLog(t) == "2023-01-01 12:00:0" \o Digit[t + 1]

(***************************************************************************)
(* TaskEvent and Task                                                      *)
(***************************************************************************)
CREATED == "task_created"
STATUS_UPDATED == "task_status_updated"
LOG_ADDED == "task_log_added"
TITLE_EDITED == "task_title_edited"

\* s[:30] + ('...' if len(s) > 30 else '')
Preview(s) ==
    SubSeq(s, 1, Min(PreviewLen, Len(s)))
        \o (IF Len(s) > PreviewLen THEN <<"...">> ELSE <<>>)

\* Task.add_internal_log: appends the tuple (timestamp, user, action)
add_internal_log(t, actor, clock, log, extra_info) ==
    LET action == IF extra_info = <<>> THEN <<log>>
                  ELSE <<log, ": ">> \o extra_info
    IN  [t EXCEPT !.internal_logs =
            Append(@, [timestamp |-> StrftimeLog(clock), user |-> actor,
                       action |-> action, py |-> "tuple"])]

Task_ActorIsCreator(actor, clock, id, title, status, logs, creator) ==
    add_internal_log(
        [id |-> id, title |-> title, status |-> status,
         logs |-> logs,
         internal_logs |-> <<>>,
         creator |-> actor],
        actor, clock, CREATED, <<>>)

\* Task.__init__; logs = <<>> and creator = "" stand for the falsy arguments
\* (None or empty), which `logs or []` and `creator or ctx.author.name` replace
Task(actor, clock, id, title, status, logs, creator) ==
    add_internal_log(
        [id |-> id, title |-> title, status |-> status,
         logs |-> logs,
         internal_logs |-> <<>>,
         creator |-> IF creator = "" THEN actor ELSE creator],
        actor, clock, CREATED, <<>>)

add_log_NoAudit(t, actor, clock, log) ==
    [t EXCEPT !.logs = Append(@, log)]

add_log_Front(t, actor, clock, log) ==
    LET u == add_internal_log(t, actor, clock, LOG_ADDED,
                              <<"'">> \o Preview(log) \o <<"'">>)
        n == Len(u.internal_logs)
    IN  [u EXCEPT !.logs = Append(@, log),
                  !.internal_logs = <<@[n]>> \o SubSeq(@, 1, n - 1)]

\* Task.add_log
add_log(t, actor, clock, log) ==
    add_internal_log([t EXCEPT !.logs = Append(@, log)], actor, clock,
                     LOG_ADDED, <<"'">> \o Preview(log) \o <<"'">>)

\* Task.set_status
set_status(t, actor, clock, status) ==
    LET old_status == t.status
    IN  add_internal_log([t EXCEPT !.status = status], actor, clock,
                         STATUS_UPDATED,
                         <<"from '", old_status, "' to '", status, "'">>)

set_title_TakesOwnership(t, actor, clock, title) ==
    LET old_title == t.title
    IN  add_internal_log([t EXCEPT !.title = title, !.creator = actor],
                         actor, clock, TITLE_EDITED,
                         <<"from '">> \o Preview(old_title) \o <<"' to '">>
                             \o Preview(title) \o <<"'">>)

\* Task.set_title
set_title(t, actor, clock, title) ==
    LET old_title == t.title
    IN  add_internal_log([t EXCEPT !.title = title], actor, clock,
                         TITLE_EDITED,
                         <<"from '">> \o Preview(old_title) \o <<"' to '">>
                             \o Preview(title) \o <<"'">>)

\* str.startswith on an audit action: the event kind is the leading piece
StartsWith(s, prefix) == Len(s) >= 1 /\ s[1] = prefix

(***************************************************************************)
(* The clock                                                               *)
(***************************************************************************)
Tick ==
    /\ now < MaxTime
    /\ now' = now + 1
    /\ UNCHANGED <<taskVars, monVars, stVars, botVars, mainVars, loopVars>>

(***************************************************************************)
(* Specification of one Task: constructed, then any calls of its methods   *)
(***************************************************************************)
TaskIdle == /\ task = <<>>
            /\ calls = 0
            /\ lastCall = [op |-> "none", actor |-> ""]

MonIdle == /\ max_retries = 0
           /\ consecutive_failures = 0
           /\ total_failures = 0
           /\ failure_types = <<>>
           /\ first_failure_time = <<>>
           /\ last_failure_time = <<>>
           /\ verdicts = <<>>
           /\ monLast = [op |-> "none", kind |-> ""]

StIdle == /\ todo_lists = <<>>
          /\ files = <<>>
          /\ saved = <<>>
          /\ stLast = [op |-> "none"]
          /\ nOps = 0
          /\ fault = "none"

BotIdle == cmdLast = [cmd |-> "none"]

MainIdle == /\ running = TRUE
            /\ mainLast = [handler |-> "none"]

\* the command handlers the event loop can have in flight at once
Handlers == {1, 2}
IdleHandler == [at |-> "idle"]
LoopIdle == /\ handlers = [h \in Handlers |-> IdleHandler]
            /\ holder = 0

InitTask ==
    /\ now = 0
    /\ \E actor \in Actors, id \in {0, 1}, title \in Titles,
          creator \in {"", "carol"} :
          task = Task(actor, 0, id, title, "pending", <<>>, creator)
    /\ calls = 0
    /\ lastCall = [op |-> "init", actor |-> ""]
    /\ MonIdle
    /\ StIdle
    /\ BotIdle
    /\ MainIdle
    /\ LoopIdle

AddLogCall(actor, log) ==
    /\ calls < MaxCalls
    /\ task' = add_log(task, actor, now, log)
    /\ calls' = calls + 1
    /\ lastCall' = [op |-> "add_log", actor |-> actor]
    /\ UNCHANGED <<now, monVars, stVars, botVars, mainVars, loopVars>>

SetStatusCall(actor, status) ==
    /\ calls < MaxCalls
    /\ task' = set_status(task, actor, now, status)
    /\ calls' = calls + 1
    /\ lastCall' = [op |-> "set_status", actor |-> actor]
    /\ UNCHANGED <<now, monVars, stVars, botVars, mainVars, loopVars>>

SetTitleCall(actor, title) ==
    /\ calls < MaxCalls
    /\ task' = set_title(task, actor, now, title)
    /\ calls' = calls + 1
    /\ lastCall' = [op |-> "set_title", actor |-> actor]
    /\ UNCHANGED <<now, monVars, stVars, botVars, mainVars, loopVars>>

NextTask ==
    \/ Tick
    \/ \E actor \in Actors, log \in LogTexts : AddLogCall(actor, log)
    \/ \E actor \in Actors, status \in Statuses : SetStatusCall(actor, status)
    \/ \E actor \in Actors, title \in Titles : SetTitleCall(actor, title)

SpecTask == InitTask /\ [][NextTask]_vars

(***************************************************************************)
(* Task construction on its own: the constructor applied to any arguments  *)
(***************************************************************************)
InitConstruct ==
    /\ now = 0
    /\ TaskIdle
    /\ MonIdle
    /\ StIdle
    /\ BotIdle
    /\ MainIdle
    /\ LoopIdle

Construct(actor, id, title, status, logs, creator) ==
    /\ task' = Task(actor, now, id, title, status, logs, creator)
    /\ calls' = 0
    /\ lastCall' = [op |-> "Task", actor |-> actor, id |-> id, title |-> title,
                    status |-> status, logs |-> logs, creator |-> creator]
    /\ UNCHANGED <<now, monVars, stVars, botVars, mainVars, loopVars>>

NextConstruct ==
    \/ Tick
    \/ \E actor \in Actors, id \in {0, 1}, title \in Titles,
          status \in Statuses, logs \in {<<>>, <<LongText>>},
          creator \in {"", "carol"} :
          Construct(actor, id, title, status, logs, creator)

SpecConstruct == InitConstruct /\ [][NextConstruct]_vars

\* C24: the constructor sets id, title and status to the values given, logs
\* to empty when none are given, creator to the acting user's name when no
\* creator is given and to the given creator otherwise, and leaves
\* internal_logs with exactly one entry, of kind task_created, attributed to
\* the acting user.
C24_Construction ==
    lastCall.op = "Task" =>
        /\ task.id = lastCall.id
        /\ task.title = lastCall.title
        /\ task.status = lastCall.status
        /\ task.logs = lastCall.logs
        /\ task.creator =
              IF lastCall.creator = "" THEN lastCall.actor ELSE lastCall.creator
        /\ Len(task.internal_logs) = 1
        /\ task.internal_logs[1].user = lastCall.actor
        /\ task.internal_logs[1].action = <<CREATED>>

C24_Witness ==
    /\ lastCall.op = "Task"
    /\ lastCall.actor = "bob"
    /\ lastCall.creator = "carol"
    /\ task.creator = "carol"
    /\ task.logs # <<>>
    /\ now = 1

\* C4: a Task's internal_logs holds one entry for its construction and one
\* for every add_log / set_status / set_title call made on it.
C4_AuditLength == Len(task.internal_logs) = 1 + calls

C4_Witness == calls = MaxCalls /\ Len(task.logs) >= 1 /\ task.status = "done"

\* C5: the audit trail is append-only.  Every add_log, set_status or
\* set_title call keeps the existing entries unchanged and in place and
\* appends exactly one entry, whose user is the caller and whose action
\* starts with the kind of the operation.
OpKind(op) ==
    CASE op = "add_log" -> LOG_ADDED
      [] op = "set_status" -> STATUS_UPDATED
      [] op = "set_title" -> TITLE_EDITED

C5_AppendOnly ==
    [][calls' = calls + 1 =>
        LET old == task.internal_logs
            new == task'.internal_logs
        IN  /\ Len(new) = Len(old) + 1
            /\ SubSeq(new, 1, Len(old)) = old
            /\ new[Len(new)].user = lastCall'.actor
            /\ StartsWith(new[Len(new)].action, OpKind(lastCall'.op))]_vars

C5_Witness ==
    /\ calls >= 2
    /\ lastCall.op = "set_title"
    /\ task.internal_logs[Len(task.internal_logs)].user # task.creator
    /\ \E i \in 1..Len(task.internal_logs) :
          StartsWith(task.internal_logs[i].action, LOG_ADDED)

(***************************************************************************)
(* ConnectionMonitor                                                       *)
(***************************************************************************)
critical_errors_NoDisconnection ==
    {"ConnectionClosed", "GatewayNotFound", "LoginFailure",
     "ClientConnectorDNSError"}

critical_errors ==
    {"ConnectionClosed", "GatewayNotFound", "LoginFailure", "Disconnection",
     "ClientConnectorDNSError"}

\* the kinds main() reports: "Disconnection" (on_disconnect) and the names
\* of the exception classes on_error and main() test for
ErrorTypes == critical_errors \cup {"TimeoutError"}

\* ConnectionMonitor.__init__
MonitorInit(retries) ==
    /\ max_retries = retries
    /\ consecutive_failures = 0
    /\ total_failures = 0
    /\ failure_types = <<>>
    /\ last_failure_time = <<>>
    /\ first_failure_time = <<>>

successful_ClearsStreakStart(first) == <<>>

\* connection_successful: what it leaves in first_failure_time
successful_first_failure_time(first) == first

connection_successful_ClearsTotal ==
    /\ consecutive_failures' = 0
    /\ total_failures' = 0
    /\ first_failure_time' = successful_first_failure_time(first_failure_time)
    /\ UNCHANGED <<max_retries, failure_types, last_failure_time>>

\* ConnectionMonitor.connection_successful
connection_successful ==
    /\ consecutive_failures' = 0
    /\ first_failure_time' = successful_first_failure_time(first_failure_time)
    /\ UNCHANGED <<max_retries, total_failures, failure_types, last_failure_time>>

verdict_StrictlyAbove(error_type, failures, retries) ==
    \/ error_type \in critical_errors /\ failures >= 2
    \/ failures > retries

verdict_ExactlyAt(error_type, failures, retries) ==
    \/ error_type \in critical_errors /\ failures >= 2
    \/ failures = retries

verdict_CriticalAtOnce(error_type, failures, retries) ==
    \/ error_type \in critical_errors
    \/ failures >= retries

verdict_NoCriticalShortcut(error_type, failures, retries) ==
    failures >= retries

\* connection_failed, its return value: failures is consecutive_failures
\* after the increment
verdict(error_type, failures, retries) ==
    IF error_type \in critical_errors /\ failures >= 2 THEN TRUE
    ELSE IF failures >= retries THEN TRUE
    ELSE FALSE

connection_failed_CountsOnce(error_type, ret) ==
    /\ first_failure_time' =
          IF consecutive_failures = 0 THEN <<now>> ELSE first_failure_time
    /\ consecutive_failures' = consecutive_failures + 1
    /\ total_failures' = total_failures + 1
    /\ last_failure_time' = <<now>>
    /\ failure_types' =
          [k \in DOMAIN failure_types \cup {error_type} |->
              IF k = error_type THEN 1 ELSE failure_types[k]]
    /\ ret = verdict(error_type, consecutive_failures + 1, max_retries)
    /\ UNCHANGED max_retries

connection_failed_StampsEveryFailure(error_type, ret) ==
    /\ first_failure_time' = <<now>>
    /\ consecutive_failures' = consecutive_failures + 1
    /\ total_failures' = total_failures + 1
    /\ last_failure_time' = <<now>>
    /\ failure_types' =
          IF error_type \in DOMAIN failure_types
          THEN [failure_types EXCEPT ![error_type] = @ + 1]
          ELSE [k \in DOMAIN failure_types \cup {error_type} |->
                   IF k = error_type THEN 1 ELSE failure_types[k]]
    /\ ret = verdict(error_type, consecutive_failures + 1, max_retries)
    /\ UNCHANGED max_retries

\* ConnectionMonitor.connection_failed; ret is the value returned
connection_failed(error_type, ret) ==
    /\ first_failure_time' =
          IF consecutive_failures = 0 THEN <<now>> ELSE first_failure_time
    /\ consecutive_failures' = consecutive_failures + 1
    /\ total_failures' = total_failures + 1
    /\ last_failure_time' = <<now>>
    /\ failure_types' =
          IF error_type \in DOMAIN failure_types
          THEN [failure_types EXCEPT ![error_type] = @ + 1]
          ELSE [k \in DOMAIN failure_types \cup {error_type} |->
                   IF k = error_type THEN 1 ELSE failure_types[k]]
    /\ ret = verdict(error_type, consecutive_failures + 1, max_retries)
    /\ UNCHANGED max_retries

InitMonitor ==
    /\ now = 0
    /\ \E retries \in 0..MaxRetriesBound : MonitorInit(retries)
    /\ verdicts = <<>>
    /\ monLast = [op |-> "init", kind |-> ""]
    /\ TaskIdle
    /\ StIdle
    /\ BotIdle
    /\ MainIdle
    /\ LoopIdle

ConnectionSuccessful ==
    /\ connection_successful
    /\ verdicts' = <<>>
    /\ monLast' = [op |-> "connection_successful", kind |-> ""]
    /\ UNCHANGED <<now, taskVars, stVars, botVars, mainVars, loopVars>>

ConnectionFailed(error_type) ==
    /\ total_failures < MaxFailures
    /\ \E ret \in BOOLEAN :
          /\ connection_failed(error_type, ret)
          /\ verdicts' = Append(verdicts, ret)
    /\ monLast' = [op |-> "connection_failed", kind |-> error_type]
    /\ UNCHANGED <<now, taskVars, stVars, botVars, mainVars, loopVars>>

NextMonitor ==
    \/ Tick
    \/ ConnectionSuccessful
    \/ \E error_type \in ErrorTypes : ConnectionFailed(error_type)

SpecMonitor == InitMonitor /\ [][NextMonitor]_vars

LastVerdict == verdicts[Len(verdicts)]

\* C6: for a kind outside the critical set, connection_failed returns True
\* exactly when consecutive_failures, after the increment, has reached
\* max_retries; with max_retries = 3, three failures in a row of non-critical
\* kinds on a fresh monitor return False, False, True.
C6_RetryBudget ==
    /\ (monLast.op = "connection_failed" /\ monLast.kind \notin critical_errors)
          => (LastVerdict <=> consecutive_failures >= max_retries)
    /\ (/\ max_retries = 3
        /\ total_failures = 3
        /\ consecutive_failures = 3
        /\ DOMAIN failure_types \cap critical_errors = {})
          => verdicts = <<FALSE, FALSE, TRUE>>

C6_Witness ==
    /\ max_retries = 3
    /\ total_failures = 3
    /\ consecutive_failures = 3
    /\ monLast.op = "connection_failed"
    /\ DOMAIN failure_types \cap critical_errors = {}

\* C7: for a critical kind, connection_failed returns True whenever
\* consecutive_failures, after the increment, is at least 2, whatever
\* max_retries is and whatever the earlier failures of the streak were; two
\* ConnectionClosed failures in a row on a fresh monitor with max_retries > 2
\* return False, True.
C7_CriticalKinds ==
    /\ (/\ monLast.op = "connection_failed"
        /\ monLast.kind \in critical_errors
        /\ consecutive_failures >= 2)
          => LastVerdict
    /\ (/\ max_retries > 2
        /\ total_failures = 2
        /\ consecutive_failures = 2
        /\ DOMAIN failure_types = {"ConnectionClosed"})
          => verdicts = <<FALSE, TRUE>>

C7_Witness ==
    /\ max_retries > 2
    /\ total_failures = 2
    /\ consecutive_failures = 2
    /\ monLast.op = "connection_failed"
    /\ DOMAIN failure_types = {"ConnectionClosed"}

\* C8: connection_successful sets consecutive_failures to 0 in every state
\* and leaves total_failures, failure_types, first_failure_time,
\* last_failure_time and max_retries as they were.
C8_SuccessFrame ==
    [][monLast'.op = "connection_successful" =>
        /\ consecutive_failures' = 0
        /\ total_failures' = total_failures
        /\ failure_types' = failure_types
        /\ first_failure_time' = first_failure_time
        /\ last_failure_time' = last_failure_time
        /\ max_retries' = max_retries]_vars

C8_Witness ==
    /\ monLast.op = "connection_successful"
    /\ consecutive_failures = 0
    /\ total_failures >= 2
    /\ first_failure_time # <<>>
    /\ first_failure_time # last_failure_time

\* a step in which connection_failed was called: verdicts gains its return
\* value
FailedStep == Len(verdicts') = Len(verdicts) + 1

\* C16: total_failures never decreases and no count of failure_types ever
\* decreases or disappears, over failures and successes alike; a call
\* connection_failed(k) adds exactly 1 to total_failures and to
\* failure_types[k] (1 for a kind seen for the first time) and changes no
\* other key.
C16_CountersMonotone ==
    [][/\ total_failures' >= total_failures
       /\ \A k \in DOMAIN failure_types :
             k \in DOMAIN failure_types' /\ failure_types'[k] >= failure_types[k]
       /\ FailedStep =>
             LET k == monLast'.kind
             IN  /\ total_failures' = total_failures + 1
                 /\ DOMAIN failure_types' = DOMAIN failure_types \cup {k}
                 /\ failure_types'[k] =
                       IF k \in DOMAIN failure_types
                       THEN failure_types[k] + 1 ELSE 1
                 /\ \A j \in DOMAIN failure_types \ {k} :
                       failure_types'[j] = failure_types[j]]_vars

C16_Witness ==
    /\ monLast.op = "connection_failed"
    /\ consecutive_failures = 1
    /\ failure_types[monLast.kind] = 2
    /\ Cardinality(DOMAIN failure_types) = 2
    /\ total_failures = 3

\* C17: connection_failed stamps first_failure_time with the current time
\* exactly when consecutive_failures was 0 before the call and leaves it as
\* it was on the later failures of the streak; it stamps last_failure_time on
\* every call.  So the first failure after a connection_successful re-stamps
\* first_failure_time, and first_failure_time <= last_failure_time whenever
\* both are set.
C17_StreakStamps ==
    [][/\ FailedStep =>
             /\ first_failure_time' =
                   IF consecutive_failures = 0 THEN <<now>>
                   ELSE first_failure_time
             /\ last_failure_time' = <<now>>
       /\ (first_failure_time' # <<>> /\ last_failure_time' # <<>>) =>
             first_failure_time'[1] <= last_failure_time'[1]]_vars

\* a second streak, two failures long, its second failure later than its
\* first
C17_Witness ==
    /\ monLast.op = "connection_failed"
    /\ total_failures >= 3
    /\ consecutive_failures = 2
    /\ first_failure_time # <<>>
    /\ last_failure_time[1] > first_failure_time[1]

\* C31: once consecutive_failures has reached max_retries, every further
\* connection_failed, of any kind, returns True until connection_successful
\* is called; only connection_successful lowers consecutive_failures, so
\* the monitor has no other way back to a False verdict.
C31_StaysTripped ==
    [][/\ (FailedStep /\ consecutive_failures >= max_retries) =>
             verdicts'[Len(verdicts')]
       /\ consecutive_failures' < consecutive_failures =>
             monLast'.op = "connection_successful"]_vars

\* a failure of a non-critical kind past the budget
C31_Witness ==
    /\ monLast.op = "connection_failed"
    /\ monLast.kind = "TimeoutError"
    /\ max_retries = 2
    /\ consecutive_failures = 4
    /\ DOMAIN failure_types = {"TimeoutError"}
    /\ verdicts = <<FALSE, TRUE, TRUE, TRUE>>

\* C32: with max_retries >= 2 the first connection_failed of a streak (on
\* a fresh monitor or right after connection_successful) returns False for
\* every kind, critical or not; with max_retries <= 1 every
\* connection_failed returns True.
C32_FirstFailure ==
    [][FailedStep =>
          /\ (max_retries >= 2 /\ consecutive_failures = 0) =>
                ~verdicts'[Len(verdicts')]
          /\ max_retries <= 1 => verdicts'[Len(verdicts')]]_vars

\* the first failure after a connection_successful, of a critical kind
C32_Witness ==
    /\ monLast.op = "connection_failed"
    /\ monLast.kind = "Disconnection"
    /\ max_retries = 2
    /\ consecutive_failures = 1
    /\ total_failures = 3
    /\ verdicts = <<FALSE>>

RECURSIVE SumCounts(_)
SumCounts(counts) ==
    IF DOMAIN counts = {} THEN 0
    ELSE LET k == CHOOSE x \in DOMAIN counts : TRUE
         IN  counts[k] + SumCounts([j \in DOMAIN counts \ {k} |-> counts[j]])

\* C29: in every state of the monitor, total_failures is the sum of the
\* counts of failure_types, and 0 <= consecutive_failures <= total_failures.
C29_CountersAgree ==
    /\ total_failures = SumCounts(failure_types)
    /\ 0 <= consecutive_failures
    /\ consecutive_failures <= total_failures

C29_Witness ==
    /\ monLast.op = "connection_successful"
    /\ total_failures = 3
    /\ Cardinality(DOMAIN failure_types) = 2
    /\ consecutive_failures = 0

(***************************************************************************)
(* main(): the event handlers that feed the ConnectionMonitor              *)
(*                                                                         *)
(* A handler runs to its end without awaiting anything between the call    *)
(* of connection_failed and sys.exit, so each is one step.  What a handler *)
(* does is recorded in order: the log records it emits by level, the       *)
(* status report, and "exit" for sys.exit(1).                              *)
(***************************************************************************)
\* the classes of the isinstance() test of on_error and of main()
ConnectionRelated ==
    {"TimeoutError", "ConnectionClosed", "GatewayNotFound", "CancelledError",
     "HTTPException", "LoginFailure", "ClientConnectorError",
     "ClientConnectorDNSError"}

\* the exceptions an event or bot.start can end with
Exceptions == ConnectionRelated \cup {"ValueError"}

\* asyncio.CancelledError derives from BaseException: 'except Exception'
\* does not catch it
ExceptionSubclasses == Exceptions \ {"CancelledError"}

Range(seq) == {seq[i] : i \in 1..Len(seq)}

on_disconnect_StaysUp(ret) ==
    <<"warning", "connection_failed">>
        \o (IF ret THEN <<"critical", "status_report">> ELSE <<>>)

\* on_disconnect after connection_failed returned ret
on_disconnect(ret) ==
    <<"warning", "connection_failed">>
        \o (IF ret THEN <<"critical", "status_report", "exit">> ELSE <<>>)

on_error_ExitsUnreported(connection_related, ret) ==
    <<"error">>
        \o (IF connection_related
            THEN <<"warning", "connection_failed">>
                    \o (IF ret THEN <<"critical", "exit">> ELSE <<>>)
            ELSE <<>>)

\* on_error; ret is what connection_failed returned, if it was called
on_error(connection_related, ret) ==
    <<"error">>
        \o (IF connection_related
            THEN <<"warning", "connection_failed">>
                    \o (IF ret THEN <<"critical", "status_report", "exit">>
                        ELSE <<>>)
            ELSE <<>>)

\* main(), the handler of an exception of bot.start
bot_start_failed(connection_related, ret) ==
    <<"exception">>
        \o (IF connection_related
            THEN <<"warning", "connection_failed">>
                    \o (IF ret THEN <<"critical", "status_report">> ELSE <<>>)
            ELSE <<>>)
        \o <<"exit">>

(***************************************************************************)
(* StorageManager                                                          *)
(*                                                                         *)
(* A file name is a sequence of pieces, as the f-string of save() builds   *)
(* it.  A path starting with the piece "../" is a file of the parent       *)
(* directory: open() reaches it, os.listdir(data_dir) does not show it.    *)
(* A file's content is [valid, data]: valid says whether it parses as      *)
(* JSON, data is the parsed object as a sequence of <<key, value>> pairs.  *)
(***************************************************************************)
Channels == {1, 2}
session_id == "s1"

\* datetime.strftime('%Y-%m-%d_%H-%M-%S')
StrftimeFile(t) == "2023-01-01_12-00-0" \o Digit[t + 1]

EndsWith(s, suffix) == Len(s) >= 1 /\ s[Len(s)] = suffix

save_filename_NoExtension(clock) ==
    <<"todo_lists_", session_id, "_", StrftimeFile(clock)>>

\* the f-string of save(): todo_lists_{session_id}_{timestamp}.json
save_filename(clock) ==
    <<"todo_lists_", session_id, "_", StrftimeFile(clock), ".json">>

RECURSIVE SortedSeq(_)
SortedSeq(S) ==
    IF S = {} THEN <<>>
    ELSE LET m == CHOOSE x \in S : \A y \in S : x <= y
         IN  <<m>> \o SortedSeq(S \ {m})

\* str(channel_id) as json.dump writes a dict key, and int(key) of load()
StrOfInt(n) == Digit[n + 1]
IsIntStr(k) == \E n \in 0..9 : Digit[n + 1] = k
IntOfStr(k) == CHOOSE n \in 0..9 : Digit[n + 1] = k

\* json.dump of one Task through default=lambda o: o.__dict__: every
\* attribute, the (timestamp, user, action) tuples written as arrays
task_json(t) ==
    [id |-> t.id, title |-> t.title, status |-> t.status, logs |-> t.logs,
     internal_logs |->
        [i \in 1..Len(t.internal_logs) |->
            <<t.internal_logs[i].timestamp, t.internal_logs[i].user,
              t.internal_logs[i].action>>],
     creator |-> t.creator]

\* json.dump(self.todo_lists, ...): int keys become strings.  The dict's
\* insertion order is not kept in todo_lists; the items are written by
\* ascending channel id.
json_dump(lists) ==
    LET chans == SortedSeq(DOMAIN lists)
    IN  [valid |-> TRUE,
         data |-> [i \in 1..Len(chans) |->
                     <<StrOfInt(chans[i]),
                       [j \in 1..Len(lists[chans[i]]) |->
                           task_json(lists[chans[i]][j])]>>]]

\* what json.load gives for a stored internal_logs array: lists, not tuples
json_internal_logs(arr) ==
    [i \in 1..Len(arr) |->
        [timestamp |-> arr[i][1], user |-> arr[i][2], action |-> arr[i][3],
         py |-> "list"]]

task_from_record_NoHistory(actor, clock, task_data) ==
    Task(actor, clock, task_data.id, task_data.title, task_data.status,
         IF "logs" \in DOMAIN task_data THEN task_data.logs ELSE <<>>,
         IF "creator" \in DOMAIN task_data THEN task_data.creator
         ELSE "Unknown")

task_from_record_KeepsCreated(actor, clock, task_data) ==
    LET t == Task(actor, clock, task_data.id, task_data.title,
                  task_data.status,
                  IF "logs" \in DOMAIN task_data THEN task_data.logs ELSE <<>>,
                  IF "creator" \in DOMAIN task_data THEN task_data.creator
                  ELSE "Unknown")
    IN  IF "internal_logs" \in DOMAIN task_data
        THEN [t EXCEPT !.internal_logs =
                 @ \o json_internal_logs(task_data.internal_logs)]
        ELSE t

\* load(), lines 235-245: the Task built from one record of the file
task_from_record(actor, clock, task_data) ==
    LET t == Task(actor, clock, task_data.id, task_data.title,
                  task_data.status,
                  IF "logs" \in DOMAIN task_data THEN task_data.logs ELSE <<>>,
                  IF "creator" \in DOMAIN task_data THEN task_data.creator
                  ELSE "Unknown")
    IN  IF "internal_logs" \in DOMAIN task_data
        THEN [t EXCEPT !.internal_logs =
                 json_internal_logs(task_data.internal_logs)]
        ELSE t

\* load(), the inner loop: [ok, tasks]; a record without id, title or status
\* raises KeyError and tasks is what had been appended until then
RECURSIVE load_tasks(_, _, _, _)
load_tasks(records, acc, actor, clock) ==
    IF records = <<>> THEN [ok |-> TRUE, tasks |-> acc]
    ELSE IF ~({"id", "title", "status"} \subseteq DOMAIN Head(records))
    THEN [ok |-> FALSE, tasks |-> acc, exc |-> "KeyError"]
    ELSE load_tasks(Tail(records),
                    Append(acc, task_from_record(actor, clock, Head(records))),
                    actor, clock)

Put(d, k, v) == [x \in DOMAIN d \cup {k} |-> IF x = k THEN v ELSE d[x]]

\* load(), the outer loop over data.items(): [ok, lists]; int(channel_id)
\* raises ValueError on a key that is no integer and lists is
\* reconstructed_todo_lists as it stood when the exception was raised
RECURSIVE load_channels(_, _, _, _)
load_channels(items, acc, actor, clock) ==
    IF items = <<>> THEN [ok |-> TRUE, lists |-> acc]
    ELSE IF ~IsIntStr(Head(items)[1])
    THEN [ok |-> FALSE, lists |-> acc, exc |-> "ValueError"]
    ELSE LET channel_id_int == IntOfStr(Head(items)[1])
             r == load_tasks(Head(items)[2], <<>>, actor, clock)
             acc2 == Put(acc, channel_id_int, r.tasks)
         IN  IF r.ok THEN load_channels(Tail(items), acc2, actor, clock)
             ELSE [ok |-> FALSE, lists |-> acc2, exc |-> r.exc]

\* load(), lines 222-247: open, json.load and the reconstruction
load_reconstruct(fs, actor, clock, filename) ==
    IF filename \notin DOMAIN fs
    THEN [ok |-> FALSE, lists |-> <<>>, exc |-> "FileNotFoundError"]
    ELSE IF ~fs[filename].content.valid
    THEN [ok |-> FALSE, lists |-> <<>>, exc |-> "JSONDecodeError"]
    ELSE load_channels(fs[filename].content.data, <<>>, actor, clock)

\* load(), the body of its try: with data_dir gone or closed to the process
\* open() raises for every filename
load_try(fs, actor, clock, filename, flt) ==
    IF flt = "dir_gone"
    THEN [ok |-> FALSE, lists |-> <<>>, exc |-> "FileNotFoundError"]
    ELSE IF flt = "dir_unreadable"
    THEN [ok |-> FALSE, lists |-> <<>>, exc |-> "PermissionError"]
    ELSE load_reconstruct(fs, actor, clock, filename)

load_except_IOErrors(exc) ==
    exc \in {"FileNotFoundError", "PermissionError", "JSONDecodeError"}

\* load(), 'except Exception': the exceptions it catches.  Every exception
\* the body raises derives from Exception
load_except(exc) ==
    exc \in {"FileNotFoundError", "PermissionError", "OSError",
             "JSONDecodeError", "ValueError", "KeyError", "TypeError",
             "AttributeError"}

load_commit_Partial(current, r) == r.lists

load_commit_Merge(current, r) ==
    IF r.ok
    THEN [c \in DOMAIN current \cup DOMAIN r.lists |->
             IF c \in DOMAIN r.lists THEN r.lists[c] ELSE current[c]]
    ELSE current

\* load(), lines 249-254: self.todo_lists after the call
load_commit(current, r) == IF r.ok THEN r.lists ELSE current

\* load(), lines 222-223: the paths handed to open().  The open is the
\* first statement of the body; nothing looks at the filename before it
load_opens(filename) == <<filename>>

\* StorageManager.load: the boolean it returns or the exception it raises,
\* the store it leaves, and the paths it tried to open
load(fs, lists, actor, clock, filename, flt) ==
    LET r == load_try(fs, actor, clock, filename, flt)
    IN  IF r.ok \/ load_except(r.exc)
        THEN [raised |-> FALSE, ret |-> r.ok,
              lists |-> load_commit(lists, r),
              opened |-> load_opens(filename)]
        ELSE [raised |-> TRUE, exc |-> r.exc, lists |-> lists,
              opened |-> load_opens(filename)]

\* the record of a load() call
load_record(actor, filename, r) ==
    IF r.raised
    THEN [op |-> "load", actor |-> actor, filename |-> filename,
          opened |-> r.opened, raised |-> TRUE, exc |-> r.exc]
    ELSE [op |-> "load", actor |-> actor, filename |-> filename,
          opened |-> r.opened, raised |-> FALSE, ret |-> r.ret]

\* os.listdir(self.data_dir)
listdir(fs) == {p \in DOMAIN fs : p[1] # "../"}

listdir_raises(flt) == flt \in {"dir_gone", "dir_unreadable"}
listdir_exception(flt) ==
    IF flt = "dir_gone" THEN "FileNotFoundError" ELSE "PermissionError"

\* list_saved_files, the condition of the comprehension
list_filter(f) == StartsWith(f, "todo_lists_") /\ EndsWith(f, ".json")

\* list_saved_files: the kept names sorted by os.path.getctime; names of
\* equal ctime stay in the order os.listdir gave them, which is arbitrary
list_saved_files(fs) ==
    LET kept == {f \in listdir(fs) : list_filter(f)}
        n == Cardinality(kept)
    IN  {s \in [1..n -> kept] :
            /\ \A i, j \in 1..n : i # j => s[i] # s[j]
            /\ \A i, j \in 1..n : i < j => fs[s[i]].ctime <= fs[s[j]].ctime}

\* what is wrong with the directory or the disk: data_dir was removed,
\* data_dir lost its permissions, or the disk is full
Faults == {"none", "dir_gone", "dir_unreadable", "disk_full"}

\* a file cut short: what json.dump leaves when a write fails
Truncated == [valid |-> FALSE, data |-> <<>>]

\* StorageManager.save: the file system it leaves and the filename it
\* returns, or the exception it raises.  open() raises when data_dir is gone
\* or closed to the process; on a full disk open() creates the file and
\* json.dump raises while writing
save(fs, lists, clock, flt) ==
    LET filename == save_filename(clock)
    IN  IF flt = "dir_gone"
        THEN [raised |-> TRUE, exc |-> "FileNotFoundError", files |-> fs]
        ELSE IF flt = "dir_unreadable"
        THEN [raised |-> TRUE, exc |-> "PermissionError", files |-> fs]
        ELSE IF flt = "disk_full"
        THEN [raised |-> TRUE, exc |-> "OSError",
              files |-> Put(fs, filename,
                            [content |-> Truncated, ctime |-> clock])]
        ELSE [raised |-> FALSE, ret |-> filename,
              files |-> Put(fs, filename,
                            [content |-> json_dump(lists), ctime |-> clock])]

\* the record of a save() call and the history of the successful ones
save_record(r) ==
    IF r.raised THEN [op |-> "save", raised |-> TRUE, exc |-> r.exc]
    ELSE [op |-> "save", raised |-> FALSE, ret |-> r.ret]
saved_after(history, r) ==
    IF r.raised THEN history
    ELSE Append(history,
                [name |-> r.ret, content |-> r.files[r.ret].content])

\* ---- files that save() did not write: snapshots of an earlier session,
\* ---- files with other names, files that do not load
OldStamp == "2022-12-31_23-59-59"
GoodRecord ==
    [id |-> 0, title |-> ShortText, status |-> "pending", logs |-> <<>>,
     internal_logs |-> <<<<"2022-12-31 23:59:59", "carol", <<CREATED>>>>>>,
     creator |-> "carol"]
LegacyRecord == [id |-> 0, title |-> ShortText, status |-> "done"]
BrokenRecord == [id |-> 1, status |-> "pending"]

ForeignFiles ==
    LET old == <<"todo_lists_", "s0", "_", OldStamp, ".json">>
        obj(d) == [valid |-> TRUE, data |-> d]
    IN  {[name |-> old,
          content |-> obj(<< <<"2", <<GoodRecord>>>>, <<"abc", <<>>>> >>)],
         [name |-> old,
          content |-> obj(<< <<"1", <<GoodRecord, BrokenRecord>>>> >>)],
         [name |-> <<"todo_lists_", session_id, "_", "nodate", ".json">>,
          content |-> obj(<< <<"1", <<>>>>, <<"2", <<LegacyRecord>>>> >>)],
         [name |-> <<"malformed_", "todo_lists_", session_id, "_", OldStamp,
                     ".json">>,
          content |-> obj(<<>>)],
         [name |-> <<"todo_lists_", session_id, "_", OldStamp, ".txt">>,
          content |-> [valid |-> FALSE, data |-> <<>>]],
         [name |-> <<"../", "todo_lists_", session_id, "_", OldStamp, ".json">>,
          content |-> obj(<< <<"2", <<GoodRecord>>>> >>)]}

\* a well-formed snapshot name with no file behind it
MissingName == <<"todo_lists_", session_id, "_", "2021-01-01_00-00-00", ".json">>

InitStorage ==
    /\ now = 0
    /\ todo_lists = <<>>
    /\ files = <<>>
    /\ saved = <<>>
    /\ stLast = [op |-> "init"]
    /\ nOps = 0
    /\ fault = "none"
    /\ TaskIdle
    /\ MonIdle
    /\ BotIdle
    /\ MainIdle
    /\ LoopIdle

\* a Task is constructed and appended to a channel's list
NewTask(channel_id, actor, title, status) ==
    /\ nOps < MaxOps
    /\ nOps' = nOps + 1
    /\ LET tasks == IF channel_id \in DOMAIN todo_lists
                    THEN todo_lists[channel_id] ELSE <<>>
           new_task == Task(actor, now, Len(tasks), title, status, <<>>, "")
       IN  todo_lists' = Put(todo_lists, channel_id, Append(tasks, new_task))
    /\ stLast' = [op |-> "task"]
    /\ cmdLast' = [cmd |-> "none"]
    /\ UNCHANGED <<now, files, saved, fault, taskVars, monVars, mainVars, loopVars>>

\* a method of a stored Task is called
StoredTaskCall(channel_id, i, actor, op) ==
    /\ nOps < MaxOps
    /\ channel_id \in DOMAIN todo_lists
    /\ i \in 1..Len(todo_lists[channel_id])
    /\ LET t == todo_lists[channel_id][i]
           u == CASE op = "add_log" -> add_log(t, actor, now, LongText)
                  [] op = "set_status" -> set_status(t, actor, now, "done")
                  [] op = "set_title" -> set_title(t, actor, now, LongText)
       IN  todo_lists' = [todo_lists EXCEPT ![channel_id][i] = u]
    /\ nOps' = nOps + 1
    /\ stLast' = [op |-> "task"]
    /\ cmdLast' = [cmd |-> "none"]
    /\ UNCHANGED <<now, files, saved, fault, taskVars, monVars, mainVars, loopVars>>

\* StorageManager.save
Save ==
    /\ nOps < MaxOps
    /\ nOps' = nOps + 1
    /\ \E r \in {save(files, todo_lists, now, fault)} :
          /\ files' = r.files
          /\ saved' = saved_after(saved, r)
          /\ stLast' = save_record(r)
    /\ cmdLast' = [cmd |-> "none"]
    /\ UNCHANGED <<now, todo_lists, fault, taskVars, monVars, mainVars, loopVars>>

\* StorageManager.load
Load(actor, filename) ==
    /\ \E r \in {load(files, todo_lists, actor, now, filename, fault)} :
          /\ todo_lists' = r.lists
          /\ stLast' = load_record(actor, filename, r)
    /\ cmdLast' = [cmd |-> "none"]
    /\ UNCHANGED <<now, files, saved, nOps, fault, taskVars, monVars, mainVars,
                   loopVars>>

\* StorageManager.list_saved_files; os.listdir raises when data_dir is gone
\* or closed to the process, and nothing catches it
ListSavedFiles ==
    /\ IF listdir_raises(fault)
       THEN stLast' = [op |-> "list_saved_files", raised |-> TRUE,
                       exc |-> listdir_exception(fault)]
       ELSE \E s \in list_saved_files(files) :
               stLast' = [op |-> "list_saved_files", raised |-> FALSE,
                          ret |-> s]
    /\ cmdLast' = [cmd |-> "none"]
    /\ UNCHANGED <<now, todo_lists, files, saved, nOps, fault, taskVars,
                   monVars, mainVars, loopVars>>

\* something other than save() creates a file
ForeignWrite(f) ==
    /\ nOps < MaxOps
    /\ fault = "none" \/ f.name[1] = "../"
    /\ f.name \notin DOMAIN files
    /\ files' = Put(files, f.name, [content |-> f.content, ctime |-> now])
    /\ nOps' = nOps + 1
    /\ stLast' = [op |-> "foreign"]
    /\ cmdLast' = [cmd |-> "none"]
    /\ UNCHANGED <<now, todo_lists, saved, fault, taskVars, monVars, mainVars,
                   loopVars>>

NextStorage ==
    \/ Tick
    \/ \E c \in Channels : NewTask(c, "alice", ShortText, "pending")
    \/ \E c \in Channels, i \in 1..MaxOps,
          op \in {"add_log", "set_status", "set_title"} :
          StoredTaskCall(c, i, "bob", op)
    \/ Save
    \/ \E filename \in DOMAIN files \cup {MissingName} : Load("bob", filename)
    \/ ListSavedFiles
    \/ \E f \in ForeignFiles : ForeignWrite(f)

SpecStorage == InitStorage /\ [][NextStorage]_vars

(***************************************************************************)
(* The commands of the TodoList cog and BotManagement.clear_tasks          *)
(*                                                                         *)
(* A command is a function of the store and its arguments: the store it    *)
(* leaves, the embed it replies with, the task it removed, and what it     *)
(* does in order: "mutate" for the change of a list or a task, "reply"     *)
(* for ctx.reply, "save" for a call of storage.save.                       *)
(***************************************************************************)
RemoveAt_SwapLast(seq, i) ==
    [q \in 1..(Len(seq) - 1) |-> IF q = i THEN seq[Len(seq)] ELSE seq[q]]

\* tasks.pop(i - 1)
RemoveAt(seq, i) == SubSeq(seq, 1, i - 1) \o SubSeq(seq, i + 1, Len(seq))

\* self.storage.todo_lists.get(channel_id, [])
get(lists, channel_id) ==
    IF channel_id \in DOMAIN lists THEN lists[channel_id] ELSE <<>>

\* _create_embed: the title without its emoji, and the colour
Embed(title, color) == [title |-> title, color |-> color]
NoTasksReply == Embed("Info", "blue")
InvalidNumberReply == Embed("Error", "red")

Result(lists, reply, trace, removed) ==
    [lists |-> lists, reply |-> reply, trace |-> trace, removed |-> removed]
Refused(lists, reply) == Result(lists, reply, <<"reply">>, <<>>)
Changed(lists, reply, removed) ==
    Result(lists, reply, <<"mutate", "reply", "save">>, removed)

add_task(lists, channel_id, actor, clock, title) ==
    LET tasks == get(lists, channel_id)
        task_id == Len(tasks)
        new_task == Task(actor, clock, task_id, title, "pending", <<>>, "")
    IN  Changed(Put(lists, channel_id, Append(tasks, new_task)),
                Embed("Task Added", "green"), <<>>)

list_tasks(lists, channel_id) ==
    IF get(lists, channel_id) = <<>> THEN Refused(lists, NoTasksReply)
    ELSE Refused(lists, Embed("Channel To-Do List", "blue"))

remove_task_InPlace(lists, channel_id, actor, clock, task_number, status, reply) ==
    LET tasks == get(lists, channel_id)
    IN  IF tasks = <<>> THEN Refused(lists, NoTasksReply)
        ELSE IF 0 < task_number /\ task_number <= Len(tasks)
        THEN Changed([lists EXCEPT ![channel_id][task_number] =
                         set_status(@, actor, clock, status)],
                     reply,
                     <<set_status(tasks[task_number], actor, clock, status)>>)
        ELSE Refused(lists, InvalidNumberReply)

\* done_task and close_task: the task is popped, then gets its status
remove_task(lists, channel_id, actor, clock, task_number, status, reply) ==
    LET tasks == get(lists, channel_id)
    IN  IF tasks = <<>> THEN Refused(lists, NoTasksReply)
        ELSE IF 0 < task_number /\ task_number <= Len(tasks)
        THEN Changed([lists EXCEPT ![channel_id] = RemoveAt(tasks, task_number)],
                     reply,
                     <<set_status(tasks[task_number], actor, clock, status)>>)
        ELSE Refused(lists, InvalidNumberReply)

done_task(lists, channel_id, actor, clock, task_number) ==
    remove_task(lists, channel_id, actor, clock, task_number, "done",
                Embed("Task Marked as Done", "green"))

close_task(lists, channel_id, actor, clock, task_number) ==
    remove_task(lists, channel_id, actor, clock, task_number, "closed",
                Embed("Task Closed", "orange"))

log_task_NoSave(lists, channel_id, actor, clock, task_number, log) ==
    LET tasks == get(lists, channel_id)
    IN  IF tasks = <<>> THEN Refused(lists, NoTasksReply)
        ELSE IF 0 < task_number /\ task_number <= Len(tasks)
        THEN Result([lists EXCEPT ![channel_id][task_number] =
                        add_log(@, actor, clock, log)],
                    Embed("Log Added to Task", "green"),
                    <<"mutate", "reply">>, <<>>)
        ELSE Refused(lists, InvalidNumberReply)

log_task(lists, channel_id, actor, clock, task_number, log) ==
    LET tasks == get(lists, channel_id)
    IN  IF tasks = <<>> THEN Refused(lists, NoTasksReply)
        ELSE IF 0 < task_number /\ task_number <= Len(tasks)
        THEN Changed([lists EXCEPT ![channel_id][task_number] =
                         add_log(@, actor, clock, log)],
                     Embed("Log Added to Task", "green"), <<>>)
        ELSE Refused(lists, InvalidNumberReply)

details_task(lists, channel_id, task_number) ==
    LET tasks == get(lists, channel_id)
    IN  IF tasks = <<>> THEN Refused(lists, NoTasksReply)
        ELSE IF 0 < task_number /\ task_number <= Len(tasks)
        THEN Refused(lists, Embed("Task Details", "blue"))
        ELSE Refused(lists, InvalidNumberReply)

\* tasks[task_number - 1] of a Python list: -1 is the last element
edit_task_FromZero(lists, channel_id, actor, clock, task_number, new_title) ==
    LET tasks == get(lists, channel_id)
        i == IF task_number = 0 THEN Len(tasks) ELSE task_number
    IN  IF tasks = <<>> THEN Refused(lists, NoTasksReply)
        ELSE IF 0 <= task_number /\ task_number <= Len(tasks)
        THEN Changed([lists EXCEPT ![channel_id][i] =
                         set_title(@, actor, clock, new_title)],
                     Embed("Task Edited", "green"), <<>>)
        ELSE Refused(lists, InvalidNumberReply)

edit_task(lists, channel_id, actor, clock, task_number, new_title) ==
    LET tasks == get(lists, channel_id)
    IN  IF tasks = <<>> THEN Refused(lists, NoTasksReply)
        ELSE IF 0 < task_number /\ task_number <= Len(tasks)
        THEN Changed([lists EXCEPT ![channel_id][task_number] =
                         set_title(@, actor, clock, new_title)],
                     Embed("Task Edited", "green"), <<>>)
        ELSE Refused(lists, InvalidNumberReply)

clear_tasks_AllChannels(lists, channel_id) ==
    IF channel_id \in DOMAIN lists /\ lists[channel_id] # <<>>
    THEN Changed([c \in DOMAIN lists |-> <<>>],
                 Embed("List Cleared", "orange"), <<>>)
    ELSE Refused(lists, Embed("Info", "blue"))

clear_tasks(lists, channel_id) ==
    IF channel_id \in DOMAIN lists /\ lists[channel_id] # <<>>
    THEN Changed([lists EXCEPT ![channel_id] = <<>>],
                 Embed("List Cleared", "orange"), <<>>)
    ELSE Refused(lists, Embed("Info", "blue"))

InitBot ==
    /\ now = 0
    /\ todo_lists = <<>>
    /\ files = <<>>
    /\ saved = <<>>
    /\ stLast = [op |-> "init"]
    /\ nOps = 0
    /\ fault = "none"
    /\ cmdLast = [cmd |-> "init"]
    /\ TaskIdle
    /\ MonIdle
    /\ MainIdle
    /\ LoopIdle

\* the commands that make the store grow when they change it
Growing == {"add", "log", "edit"}

\* a command runs: result is what it does to the store of the moment
Command(cmd, channel_id, task_number, result) ==
    /\ \E r \in {result} :
          /\ LET grows == cmd \in Growing /\ "mutate" \in Range(r.trace)
             IN  /\ grows => nOps < MaxCmds
                 /\ nOps' = IF grows THEN nOps + 1 ELSE nOps
          /\ todo_lists' = r.lists
          /\ IF "save" \in Range(r.trace)
             THEN \E sv \in {save(files, r.lists, now, fault)} :
                     /\ files' = sv.files
                     /\ saved' = saved_after(saved, sv)
                     /\ stLast' = save_record(sv)
             ELSE UNCHANGED <<files, saved, stLast>>
          /\ cmdLast' = [cmd |-> cmd, channel_id |-> channel_id,
                         task_number |-> task_number,
                         len_before |-> Len(get(todo_lists, channel_id)),
                         reply |-> r.reply, trace |-> r.trace,
                         removed |-> r.removed]
    /\ UNCHANGED <<now, fault, taskVars, monVars, mainVars, loopVars>>

\* the task numbers users send, and the channels they send them in
Positions == -1..3
Addressed == {1}

NextBot ==
    \/ \E c \in Channels :
          Command("add", c, 0, add_task(todo_lists, c, "alice", now, ShortText))
    \/ \E c \in Channels : Command("list", c, 0, list_tasks(todo_lists, c))
    \/ \E c \in Addressed, n \in Positions :
          Command("done", c, n, done_task(todo_lists, c, "bob", now, n))
    \/ \E c \in Addressed, n \in Positions :
          Command("close", c, n, close_task(todo_lists, c, "bob", now, n))
    \/ \E c \in Addressed, n \in Positions :
          Command("log", c, n, log_task(todo_lists, c, "bob", now, n, LongText))
    \/ \E c \in Addressed, n \in Positions :
          Command("details", c, n, details_task(todo_lists, c, n))
    \/ \E c \in Addressed, n \in Positions :
          Command("edit", c, n, edit_task(todo_lists, c, "bob", now, n, LongText))
    \/ \E c \in Channels : Command("clear", c, 0, clear_tasks(todo_lists, c))

SpecBot == InitBot /\ [][NextBot]_vars

(***************************************************************************)
(* The snapshot layer when the directory or the disk fails                 *)
(***************************************************************************)
\* data_dir is removed, loses its permissions, the disk fills up, or the
\* trouble is over (a removed data_dir comes back empty)
SetFault(f) ==
    /\ f # fault
    /\ fault' = f
    /\ files' = IF f = "dir_gone"
                THEN [p \in {q \in DOMAIN files : q[1] = "../"} |-> files[p]]
                ELSE files
    /\ stLast' = [op |-> "fault"]
    /\ cmdLast' = [cmd |-> "none"]
    /\ UNCHANGED <<now, todo_lists, saved, nOps, taskVars, monVars, mainVars,
                   loopVars>>

save_command_NoExcept(sv) ==
    IF sv.raised
    THEN [reply |-> <<>>, trace |-> <<"save">>, crashed |-> TRUE]
    ELSE [reply |-> <<Embed("Lists Saved", "green")>>,
          trace |-> <<"save", "reply">>, crashed |-> FALSE]

\* BotManagement.save_command around the save() call sv: its reply, what it
\* does in order, and whether an exception leaves the command
save_command(sv) ==
    IF sv.raised
    THEN [reply |-> <<Embed("Error Saving", "red")>>,
          trace |-> <<"save", "log_error", "reply">>, crashed |-> FALSE]
    ELSE [reply |-> <<Embed("Lists Saved", "green")>>,
          trace |-> <<"save", "reply">>, crashed |-> FALSE]

SaveCommand ==
    /\ nOps < MaxOps
    /\ nOps' = nOps + 1
    /\ \E sv \in {save(files, todo_lists, now, fault)} :
          /\ files' = sv.files
          /\ saved' = saved_after(saved, sv)
          /\ stLast' = save_record(sv)
          /\ LET r == save_command(sv)
             IN  cmdLast' = [cmd |-> "save", reply |-> r.reply,
                             trace |-> r.trace, crashed |-> r.crashed]
    /\ UNCHANGED <<now, todo_lists, fault, taskVars, monVars, mainVars, loopVars>>

NextFaults ==
    \/ \E f \in Faults : SetFault(f)
    \/ NewTask(1, "alice", ShortText, "pending")
    \/ Save
    \/ SaveCommand
    \/ \E filename \in DOMAIN files \cup {MissingName} : Load("bob", filename)
    \/ ListSavedFiles
    \/ \E f \in ForeignFiles : ForeignWrite(f)

SpecFaults == InitStorage /\ [][NextFaults]_vars

(***************************************************************************)
(* The load and loadlast commands of the management cog                    *)
(***************************************************************************)
\* '".." in filename' and '"/" in filename': a name holds the substring
\* when one of its pieces does
HasDotDot(filename) ==
    \E i \in 1..Len(filename) : filename[i] \in {"..", "../"}
HasSlash(filename) ==
    \E i \in 1..Len(filename) : filename[i] \in {"/", "../"}

\* 'success = await self.storage.load(ctx, filename)' and the reply that
\* follows it, in load_command and in loadlast_command
load_and_reply(fs, lists, actor, clock, filename, flt, loaded) ==
    LET ld == load(fs, lists, actor, clock, filename, flt)
        call == <<load_record(actor, filename, ld)>>
    IN  IF ld.raised
        THEN [lists |-> ld.lists, reply |-> <<>>, loads |-> call,
              crashed |-> TRUE]
        ELSE IF ld.ret
        THEN [lists |-> ld.lists, reply |-> <<Embed(loaded, "green")>>,
              loads |-> call, crashed |-> FALSE]
        ELSE [lists |-> ld.lists, reply |-> <<Embed("Error Loading", "red")>>,
              loads |-> call, crashed |-> FALSE]

load_command_NoValidation(fs, lists, actor, clock, filename, flt) ==
    load_and_reply(fs, lists, actor, clock, filename, flt, "Lists Loaded")

\* BotManagement.load_command: the store it leaves, its reply, and the
\* calls of storage.load it made
load_command(fs, lists, actor, clock, filename, flt) ==
    IF HasDotDot(filename) \/ HasSlash(filename)
    THEN [lists |-> lists, reply |-> <<Embed("Invalid Filename", "red")>>,
          loads |-> <<>>, crashed |-> FALSE]
    ELSE load_and_reply(fs, lists, actor, clock, filename, flt, "Lists Loaded")

loadlast_command_First(listed, fs, lists, actor, clock, flt) ==
    IF listed = <<>>
    THEN [lists |-> lists, reply |-> <<Embed("No Files Found", "blue")>>,
          loads |-> <<>>, crashed |-> FALSE]
    ELSE load_and_reply(fs, lists, actor, clock, listed[1], flt,
                        "Last List Loaded")

\* BotManagement.loadlast_command after list_saved_files() returned listed
loadlast_command(listed, fs, lists, actor, clock, flt) ==
    IF listed = <<>>
    THEN [lists |-> lists, reply |-> <<Embed("No Files Found", "blue")>>,
          loads |-> <<>>, crashed |-> FALSE]
    ELSE load_and_reply(fs, lists, actor, clock, listed[Len(listed)], flt,
                        "Last List Loaded")

\* a name in a subdirectory of data_dir
SubdirName == <<"backup", "/", "todo_lists_", session_id, "_", OldStamp, ".json">>

LoadCommand(actor, filename) ==
    /\ \E r \in {load_command(files, todo_lists, actor, now, filename, fault)} :
          /\ todo_lists' = r.lists
          /\ stLast' = IF r.loads = <<>> THEN stLast ELSE r.loads[Len(r.loads)]
          /\ cmdLast' = [cmd |-> "load", filename |-> filename,
                         reply |-> r.reply, loads |-> r.loads,
                         crashed |-> r.crashed]
    /\ UNCHANGED <<now, files, saved, nOps, fault, taskVars, monVars, mainVars,
                   loopVars>>

\* loadlast_command; list_saved_files() is called outside any try, so what
\* os.listdir raises leaves the command
LoadLastCommand(actor) ==
    /\ IF listdir_raises(fault)
       THEN /\ todo_lists' = todo_lists
            /\ stLast' = [op |-> "list_saved_files", raised |-> TRUE,
                          exc |-> listdir_exception(fault)]
            /\ cmdLast' = [cmd |-> "loadlast",
                           listing |-> [raised |-> TRUE],
                           reply |-> <<>>, loads |-> <<>>, crashed |-> TRUE]
       ELSE \E listed \in list_saved_files(files) :
            \E r \in {loadlast_command(listed, files, todo_lists, actor, now,
                                       fault)} :
               /\ todo_lists' = r.lists
               /\ stLast' = IF r.loads = <<>>
                            THEN [op |-> "list_saved_files", raised |-> FALSE,
                                  ret |-> listed]
                            ELSE r.loads[Len(r.loads)]
               /\ cmdLast' = [cmd |-> "loadlast",
                              listing |-> [raised |-> FALSE, ret |-> listed],
                              reply |-> r.reply, loads |-> r.loads,
                              crashed |-> r.crashed]
    /\ UNCHANGED <<now, files, saved, nOps, fault, taskVars, monVars, mainVars,
                   loopVars>>

\* the files of an earlier session and of the parent directory, and the
\* directory present or removed
ManageFiles == {f \in ForeignFiles : f.name[1] = "../" \/ f.name[2] = "s0"}
ManageFaults == {"none", "dir_gone"}

NextManage ==
    \/ Tick
    \/ \E f \in ManageFaults : SetFault(f)
    \/ NewTask(1, "alice", ShortText, "pending")
    \/ SaveCommand
    \/ \E filename \in DOMAIN files \cup {MissingName, SubdirName} :
          LoadCommand("bob", filename)
    \/ LoadLastCommand("bob")
    \/ \E f \in ManageFiles : ForeignWrite(f)

SpecManage == InitStorage /\ [][NextManage]_vars

(***************************************************************************)
(* A session of the bot from an empty store and an empty data_dir: the     *)
(* commands that make, change and remove tasks, and load and loadlast of   *)
(* the snapshots the commands wrote                                        *)
(***************************************************************************)
NextSession ==
    \/ Tick
    \/ Command("add", 1, 0, add_task(todo_lists, 1, "alice", now, ShortText))
    \/ \E n \in {1, 2} :
          Command("done", 1, n, done_task(todo_lists, 1, "bob", now, n))
    \/ \E n \in {1, 2} :
          Command("close", 1, n, close_task(todo_lists, 1, "bob", now, n))
    \/ Command("log", 1, 1, log_task(todo_lists, 1, "bob", now, 1, LongText))
    \/ Command("edit", 1, 1, edit_task(todo_lists, 1, "bob", now, 1, LongText))
    \/ /\ Len(saved) < MaxCmds
       /\ \E filename \in DOMAIN files : LoadCommand("bob", filename)
    \/ /\ Len(saved) < MaxCmds
       /\ LoadLastCommand("bob")

SpecSession == InitBot /\ [][NextSession]_vars

\* C38: from an empty store and with the bot's commands only, load and
\* loadlast reading the snapshots save() wrote, every task in the store
\* and every task in every snapshot has status "pending": done and close
\* set the status on the task they have removed from its list.
C38_OnlyPendingStored ==
    /\ \A c \in DOMAIN todo_lists : \A i \in 1..Len(todo_lists[c]) :
          todo_lists[c][i].status = "pending"
    /\ \A f \in DOMAIN files :
          LET data == files[f].content.data
          IN  \A k \in 1..Len(data) : \A j \in 1..Len(data[k][2]) :
                 data[k][2][j].status = "pending"
    /\ (cmdLast.cmd \in {"done", "close"} /\ cmdLast.removed # <<>>) =>
          cmdLast.removed[1].status =
              (IF cmdLast.cmd = "done" THEN "done" ELSE "closed")

\* an earlier snapshot was loaded after the task in it had been removed
C38_Witness ==
    /\ cmdLast.cmd = "load"
    /\ cmdLast.loads[1].ret
    /\ Len(todo_lists[1]) = 1
    /\ todo_lists[1][1].internal_logs[1].py = "list"
    /\ Len(saved) = 2
    /\ saved[2].content.data[1][2] = <<>>

(***************************************************************************)
(* main(): the event handlers as steps of the running bot                  *)
(***************************************************************************)
\* the author of the message on_ready sends to run loadlast on: the bot
BotUser == "todord"

\* what an earlier session left in data_dir
EarlierSession ==
    LET f == CHOOSE g \in ForeignFiles :
                 g.name[2] = "s0" /\ Len(g.content.data) = 2
    IN  Put(<<>>, f.name, [content |-> f.content, ctime |-> 0])

InitMain ==
    /\ now = 0
    /\ \E retries \in 0..MaxRetriesBound : MonitorInit(retries)
    /\ verdicts = <<>>
    /\ monLast = [op |-> "init", kind |-> ""]
    /\ running = TRUE
    /\ mainLast = [handler |-> "init", called |-> FALSE, ret |-> FALSE,
                   trace |-> <<>>]
    /\ todo_lists = <<>>
    /\ files \in {<<>>, EarlierSession}
    /\ saved = <<>>
    /\ stLast = [op |-> "none"]
    /\ nOps = 0
    /\ fault = "none"
    /\ TaskIdle
    /\ BotIdle
    /\ LoopIdle

\* a handler that calls connection_failed(error_type) and then does trace
ReportFailure(handler, error_type, ret, trace) ==
    /\ connection_failed(error_type, ret)
    /\ verdicts' = Append(verdicts, ret)
    /\ monLast' = [op |-> "connection_failed", kind |-> error_type]
    /\ mainLast' = [handler |-> handler, called |-> TRUE, ret |-> ret,
                    trace |-> trace]
    /\ running' = ("exit" \notin Range(trace))

\* on_connect and on_resume
OnConnected(handler) ==
    /\ running
    /\ connection_successful
    /\ verdicts' = <<>>
    /\ monLast' = [op |-> "connection_successful", kind |-> ""]
    /\ mainLast' = [handler |-> handler, called |-> FALSE, ret |-> FALSE,
                    trace |-> <<"info">>]
    /\ UNCHANGED <<now, running, taskVars, stVars, botVars, loopVars>>

\* on_ready: connection_successful(), then, when logged in, the cogs, the
\* announcement and, when there are saved files and a channel to run it
\* in, loadlast_command inside 'try ... except Exception'
OnReady(logged_in, channel) ==
    /\ running
    /\ connection_successful
    /\ verdicts' = <<>>
    /\ monLast' = [op |-> "connection_successful", kind |-> ""]
    /\ \E listed \in list_saved_files(files) :
          IF logged_in /\ listed # <<>> /\ channel
          THEN \E relisted \in list_saved_files(files) :
               \E r \in {loadlast_command(relisted, files, todo_lists,
                                          BotUser, now, fault)} :
                  /\ todo_lists' = r.lists
                  /\ stLast' = r.loads[Len(r.loads)]
                  /\ mainLast' = [handler |-> "on_ready", called |-> FALSE,
                                  ret |-> FALSE,
                                  trace |-> <<"info", "add_cogs", "announce",
                                              "loadlast", "announce">>]
          ELSE /\ UNCHANGED <<todo_lists, stLast>>
               /\ mainLast' = [handler |-> "on_ready", called |-> FALSE,
                               ret |-> FALSE,
                               trace |-> IF logged_in
                                         THEN <<"info", "add_cogs", "announce">>
                                         ELSE <<"error">>]
    /\ UNCHANGED <<now, running, files, saved, nOps, fault, taskVars, botVars,
                   loopVars>>

OnDisconnect ==
    /\ running
    /\ total_failures < MaxFailures
    /\ \E ret \in BOOLEAN :
          ReportFailure("on_disconnect", "Disconnection", ret, on_disconnect(ret))
    /\ UNCHANGED <<now, taskVars, stVars, botVars, loopVars>>

OnError(exc) ==
    /\ running
    /\ total_failures < MaxFailures
    /\ IF exc \in ConnectionRelated
       THEN \E ret \in BOOLEAN :
               ReportFailure("on_error", exc, ret, on_error(TRUE, ret))
       ELSE /\ mainLast' = [handler |-> "on_error", called |-> FALSE,
                            ret |-> FALSE, trace |-> on_error(FALSE, FALSE)]
            /\ UNCHANGED <<monVars, running>>
    /\ UNCHANGED <<now, taskVars, stVars, botVars, loopVars>>

BotStartFailed(exc) ==
    /\ running
    /\ total_failures < MaxFailures
    /\ IF exc \in ConnectionRelated
       THEN \E ret \in BOOLEAN :
               ReportFailure("main", exc, ret, bot_start_failed(TRUE, ret))
       ELSE /\ mainLast' = [handler |-> "main", called |-> FALSE,
                            ret |-> FALSE,
                            trace |-> bot_start_failed(FALSE, FALSE)]
            /\ running' = FALSE
            /\ UNCHANGED monVars
    /\ UNCHANGED <<now, taskVars, stVars, botVars, loopVars>>

NextMain ==
    \/ \E logged_in, channel \in BOOLEAN : OnReady(logged_in, channel)
    \/ \E handler \in {"on_connect", "on_resume"} : OnConnected(handler)
    \/ OnDisconnect
    \/ \E exc \in Exceptions : OnError(exc)
    \/ \E exc \in ExceptionSubclasses : BotStartFailed(exc)

SpecMain == InitMain /\ [][NextMain]_vars

\* C12: in on_disconnect, in on_error and in the handler around bot.start,
\* whenever connection_failed returned True the process exits, and the
\* status report is emitted before the exit.
C12_ReportThenExit ==
    (mainLast.handler \in {"on_disconnect", "on_error", "main"}
        /\ mainLast.called /\ mainLast.ret) =>
        /\ ~running
        /\ \E i, j \in 1..Len(mainLast.trace) :
              /\ i < j
              /\ mainLast.trace[i] = "status_report"
              /\ mainLast.trace[j] = "exit"

C12_Witness ==
    /\ mainLast.handler = "on_error"
    /\ mainLast.called
    /\ mainLast.ret
    /\ monLast.kind = "TimeoutError"
    /\ consecutive_failures = 3
    /\ ~running

\* C30: with the handlers of main() around the monitor, where the process
\* stops as soon as connection_failed returns True, and max_retries >= 1,
\* consecutive_failures never exceeds max_retries, whatever the order of
\* the ready, connect, resume, disconnect and error events.
C30_StreakWithinBudget ==
    max_retries >= 1 => consecutive_failures <= max_retries

C30_Witness ==
    /\ max_retries = 3
    /\ consecutive_failures = 3
    /\ total_failures > 3
    /\ mainLast.handler = "on_disconnect"
    /\ ~running

\* C33: on_disconnect reports the critical kind "Disconnection": when a
\* disconnect is the second failure reported to the monitor since the last
\* on_ready, on_connect or on_resume, the bot exits, whatever max_retries
\* is; a disconnect that is the first failure since then does not make the
\* bot exit when max_retries >= 2, and the on_connect or on_resume that
\* follows it ends the streak and never exits.
C33_SecondDisconnectExits ==
    [][/\ (mainLast'.handler = "on_disconnect"
              /\ total_failures' = total_failures + 1) =>
             /\ monLast'.kind = "Disconnection"
             /\ consecutive_failures = 1 =>
                   (~running' /\ "exit" \in Range(mainLast'.trace))
             /\ (consecutive_failures = 0 /\ max_retries >= 2) => running'
       /\ (running /\ mainLast'.handler \in {"on_ready", "on_connect", "on_resume"}) =>
             (running' /\ consecutive_failures' = 0)]_vars

\* with the largest budget, a timeout and then a disconnect after a resume
C33_Witness ==
    /\ mainLast.handler = "on_disconnect"
    /\ max_retries = MaxRetriesBound
    /\ consecutive_failures = 2
    /\ total_failures = 3
    /\ "TimeoutError" \in DOMAIN failure_types
    /\ failure_types["Disconnection"] = 2
    /\ verdicts = <<FALSE, TRUE>>
    /\ ~running

(***************************************************************************)
(* Command handlers as coroutines of one event loop.  A handler holds the  *)
(* thread from one suspension point to the next; the loop gives the thread *)
(* to any handler that is ready.  Each step is one statement of add_task,  *)
(* of log_task or of save().                                               *)
(***************************************************************************)
suspends_InSave(at) == at \in {"reply", "refuse", "dump"}

suspends_AfterCheck(at) == at \in {"reply", "refuse", "begin"}

\* the statements at which a handler gives the thread back: the
\* 'await ctx.reply(embed=embed)' of a command.  'await self.storage.save(ctx)'
\* runs save() to its return, since save() awaits nothing
suspends(at) == at \in {"reply", "refuse"}

InitAsync ==
    /\ now = 0
    /\ todo_lists = <<>>
    /\ files = <<>>
    /\ saved = <<>>
    /\ stLast = [op |-> "init"]
    /\ nOps = 0
    /\ fault = "none"
    /\ TaskIdle
    /\ MonIdle
    /\ BotIdle
    /\ MainIdle
    /\ LoopIdle

\* the loop gives the thread to h, or h holds it already
Runs(h) == handlers[h].at # "idle" /\ holder \in {0, h}

\* h has run the statement it was at and is now at next
Goes(h, next) ==
    /\ handlers' = [handlers EXCEPT ![h] = next]
    /\ holder' = IF suspends(handlers[h].at) \/ next.at = "idle" THEN 0 ELSE h

\* a message with a command arrives and its handler is created
Start(h, cmd, actor, channel_id, task_number) ==
    /\ handlers[h].at = "idle"
    /\ nOps < MaxCmds
    /\ nOps' = nOps + 1
    /\ handlers' = [handlers EXCEPT ![h] =
                       [at |-> "begin", cmd |-> cmd, actor |-> actor,
                        channel_id |-> channel_id,
                        task_number |-> task_number]]
    /\ UNCHANGED <<now, holder, todo_lists, files, saved, stLast, fault,
                   taskVars, monVars, botVars, mainVars>>

\* the statement a command's change of the store starts with, once its
\* checks have passed
first_statement(cmd) ==
    CASE cmd = "log" -> "log"
      [] cmd \in {"done", "close"} -> "pop"
      [] cmd = "edit" -> "retitle"
      [] cmd = "clear" -> "empty"

\* add_task, lines 424-427: the channel gets its list, with no check of
\* anything.  done, close, log and edit: 'tasks = ...get(channel_id, [])',
\* 'if not tasks', 'if 0 < task_number <= len(tasks)'; target is the task
\* the number stands for.  clear_tasks, line 739: the channel has tasks
Begin(h) ==
    /\ Runs(h)
    /\ handlers[h].at = "begin"
    /\ LET x == handlers[h]
           c == x.channel_id
           n == x.task_number
           tasks == get(todo_lists, c)
       IN  IF x.cmd = "add"
           THEN /\ todo_lists' = IF c \in DOMAIN todo_lists THEN todo_lists
                                 ELSE Put(todo_lists, c, <<>>)
                /\ Goes(h, [x EXCEPT !.at = "append"])
           ELSE /\ todo_lists' = todo_lists
                /\ IF x.cmd = "clear"
                   THEN Goes(h, [x EXCEPT !.at = IF tasks # <<>> THEN "empty"
                                                 ELSE "refuse"])
                   ELSE IF tasks # <<>> /\ 0 < n /\ n <= Len(tasks)
                   THEN Goes(h, [at |-> first_statement(x.cmd), cmd |-> x.cmd,
                                 actor |-> x.actor, channel_id |-> c,
                                 task_number |-> n, target |-> tasks[n]])
                   ELSE Goes(h, [x EXCEPT !.at = "refuse"])
    /\ UNCHANGED <<now, files, saved, stLast, nOps, fault, taskVars, monVars,
                   botVars, mainVars>>

\* the statements that change the store.  add_task, lines 429-431: the
\* task is built and appended.  Task.add_log: logs.append, then the audit
\* entry.  done_task and close_task: tasks.pop(task_number - 1); the status
\* is set on the task popped.  edit_task: set_title on
\* tasks[task_number - 1].  clear_tasks: the channel gets an empty list
Mutate(h) ==
    /\ Runs(h)
    /\ handlers[h].at \in {"append", "log", "audit", "pop", "retitle", "empty"}
    /\ LET x == handlers[h]
           c == x.channel_id
           n == x.task_number
       IN  /\ todo_lists' =
                 CASE x.at = "append" ->
                        [todo_lists EXCEPT ![c] =
                            Append(@, Task(x.actor, now, Len(@), ShortText,
                                           "pending", <<>>, ""))]
                   [] x.at = "log" ->
                        [todo_lists EXCEPT ![c][n].logs = Append(@, LongText)]
                   [] x.at = "audit" ->
                        [todo_lists EXCEPT ![c][n] =
                            add_internal_log(@, x.actor, now, LOG_ADDED,
                                <<"'">> \o Preview(LongText) \o <<"'">>)]
                   [] x.at = "pop" ->
                        [todo_lists EXCEPT ![c] = RemoveAt(@, n)]
                   [] x.at = "retitle" ->
                        [todo_lists EXCEPT ![c][n] =
                            set_title(@, x.actor, now, LongText)]
                   [] x.at = "empty" -> [todo_lists EXCEPT ![c] = <<>>]
           /\ Goes(h, [x EXCEPT !.at = IF x.at = "log" THEN "audit"
                                       ELSE "reply"])
    /\ UNCHANGED <<now, files, saved, stLast, nOps, fault, taskVars, monVars,
                   botVars, mainVars>>

after_reply_SavesAnyway(at, sent) == IF at = "reply" THEN "save" ELSE "idle"

\* what follows 'await ctx.reply(embed=embed)': the save after the reply of
\* a command that changed the store, the return after a refusal; when the
\* reply cannot be sent the exception leaves the handler
after_reply(at, sent) == IF at = "reply" /\ sent THEN "save" ELSE "idle"

\* 'await ctx.reply(embed=embed)', sent or not
Reply(h, sent) ==
    /\ Runs(h)
    /\ handlers[h].at \in {"reply", "refuse"}
    /\ Goes(h, IF after_reply(handlers[h].at, sent) = "save"
               THEN [at |-> "save", cmd |-> handlers[h].cmd, sent |-> sent]
               ELSE IdleHandler)
    /\ cmdLast' = IF sent THEN cmdLast
                  ELSE [cmd |-> handlers[h].cmd, crashed |-> TRUE]
    /\ UNCHANGED <<now, stVars, taskVars, monVars, mainVars>>

\* save(), lines 202-206: the name is made and open(filepath, "w") leaves
\* an empty file
SaveOpen(h) ==
    /\ Runs(h)
    /\ handlers[h].at = "save"
    /\ LET filename == save_filename(now)
       IN  /\ files' = Put(files, filename,
                           [content |-> Truncated, ctime |-> now])
           /\ Goes(h, [at |-> "dump", cmd |-> handlers[h].cmd,
                       name |-> filename, k |-> 0])
    /\ UNCHANGED <<now, todo_lists, saved, stLast, nOps, fault, taskVars,
                   monVars, botVars, mainVars>>

\* save(), line 207: json.dump with indent writes the store piece by piece,
\* reading each channel's list when its turn comes; after the last one the
\* file is complete and save() returns
Dump(h) ==
    /\ Runs(h)
    /\ handlers[h].at = "dump"
    /\ LET x == handlers[h]
           all == json_dump(todo_lists).data
       IN  IF x.k < Len(all)
           THEN /\ files' = [files EXCEPT ![x.name].content.data =
                                Append(@, all[x.k + 1])]
                /\ Goes(h, [x EXCEPT !.k = @ + 1])
                /\ UNCHANGED <<stLast, saved>>
           ELSE /\ files' = [files EXCEPT ![x.name].content.valid = TRUE]
                /\ Goes(h, IdleHandler)
                /\ stLast' = [op |-> "save", raised |-> FALSE, ret |-> x.name]
                /\ saved' = Append(saved,
                                   [name |-> x.name,
                                    content |-> files'[x.name].content])
    /\ UNCHANGED <<now, todo_lists, nOps, fault, taskVars, monVars, botVars,
                   mainVars>>

NextAsync ==
    \/ \E h \in Handlers, c \in Channels : Start(h, "add", "alice", c, 0)
    \/ \E h \in Handlers, cmd \in {"log", "edit", "close"} :
          Start(h, cmd, "bob", 1, 1)
    \/ \E h \in Handlers, n \in {1, 2} : Start(h, "done", "bob", 1, n)
    \/ \E h \in Handlers : Start(h, "clear", "alice", 1, 0)
    \/ \E h \in Handlers : Begin(h)
    \/ \E h \in Handlers : Mutate(h)
    \/ \E h \in Handlers, sent \in BOOLEAN : Reply(h, sent)
    \/ \E h \in Handlers : SaveOpen(h)
    \/ \E h \in Handlers : Dump(h)

SpecAsync == InitAsync /\ [][NextAsync]_vars

\* a handler between the first and the last statement of its change of the
\* store, and a handler inside save() with the file open
MidMutation(x) == x.at \in {"append", "audit"}
InSave(x) == x.at = "dump"

\* C28: save() is atomic with respect to the command handlers: from its
\* first read of the store to the end of the write no other handler runs,
\* so that under any interleaving of the handlers no handler is in the
\* middle of a mutation while another is inside save(), and the file save()
\* leaves is the store as it stands when save() returns.
C28_SaveAtomic ==
    [][/\ \A h \in Handlers :
             InSave(handlers'[h]) =>
                 /\ holder' = h
                 /\ \A g \in Handlers \ {h} : ~MidMutation(handlers'[g])
       /\ \A h \in Handlers :
             (InSave(handlers[h]) /\ ~InSave(handlers'[h])) =>
                 files'[handlers[h].name].content = json_dump(todo_lists')]_vars

\* a save returned while the other handler, which has changed the store,
\* waits for its reply to be sent
C28_Witness ==
    /\ stLast.op = "save"
    /\ handlers[1].at = "idle"
    /\ handlers[2].at = "save"
    /\ handlers[2].cmd = "log"
    /\ files[stLast.ret].content = json_dump(todo_lists)
    /\ DOMAIN todo_lists = {1, 2}
    /\ Len(todo_lists[1]) = 1
    /\ Len(todo_lists[1][1].logs) = 1

\* the handlers none of which is inside a command
AllIdle == \A h \in Handlers : handlers[h].at = "idle"

\* C34: between the position check of a command and its change of the
\* store no other handler runs: while a handler stands before the pop of
\* done or close, before the edit or before the log it validated, the
\* position is still in range and still holds the task that was there at
\* the check, under every interleaving of the handlers; add and clear
\* likewise find the list they checked.  So no command removes or edits
\* another task than the one validated, and no pop is out of range.
C34_ValidatedAtMutation ==
    \A h \in Handlers :
        LET x == handlers[h]
        IN  /\ x.at \in {"append", "log", "audit", "pop", "retitle", "empty"} =>
                  holder = h
            /\ x.at \in {"log", "pop", "retitle"} =>
                  /\ x.task_number \in 1..Len(get(todo_lists, x.channel_id))
                  /\ todo_lists[x.channel_id][x.task_number] = x.target
            /\ x.at = "audit" =>
                  /\ x.task_number \in 1..Len(get(todo_lists, x.channel_id))
                  /\ todo_lists[x.channel_id][x.task_number] =
                        [x.target EXCEPT !.logs = Append(@, LongText)]
            /\ x.at = "append" => x.channel_id \in DOMAIN todo_lists
            /\ x.at = "empty" => get(todo_lists, x.channel_id) # <<>>

\* a done has passed its check while an edit of the same task, which has
\* changed the title, waits for its reply to be sent
C34_Witness ==
    /\ handlers[1].at = "pop"
    /\ handlers[1].task_number = 1
    /\ handlers[1].target.title = LongText
    /\ handlers[2].at = "save"
    /\ handlers[2].cmd = "edit"
    /\ holder = 1

C21_LoadCommand ==
    [][cmdLast'.cmd = "load" =>
          LET c == cmdLast'
          IN  IF \E i \in 1..Len(c.filename) :
                    c.filename[i] \in {"..", "/", "../"}
              THEN /\ c.reply = <<Embed("Invalid Filename", "red")>>
                   /\ c.loads = <<>>
                   /\ todo_lists' = todo_lists
              ELSE /\ Len(c.loads) = 1
                   /\ c.loads[1].filename = c.filename
                   /\ ~c.loads[1].raised
                   /\ c.reply = IF c.loads[1].ret
                                THEN <<Embed("Lists Loaded", "green")>>
                                ELSE <<Embed("Error Loading", "red")>>]_vars

\* a file outside data_dir that would load was asked for and refused
C21_Witness ==
    /\ cmdLast.cmd = "load"
    /\ cmdLast.filename[1] = "../"
    /\ cmdLast.filename \in DOMAIN files
    /\ cmdLast.loads = <<>>
    /\ todo_lists # <<>>
    /\ fault = "none"

\* C22: the loadlast command loads exactly the last element of what
\* list_saved_files() returned; when that list is empty it calls load zero
\* times and leaves the store unchanged; when the load fails it replies with
\* the failure and the store is unchanged.
C22_LoadLast ==
    [][cmdLast'.cmd = "loadlast" =>
          LET c == cmdLast'
          IN  IF c.listing.raised
              THEN c.loads = <<>> /\ todo_lists' = todo_lists
              ELSE IF c.listing.ret = <<>>
              THEN c.loads = <<>> /\ todo_lists' = todo_lists
              ELSE /\ Len(c.loads) = 1
                   /\ c.loads[1].filename = c.listing.ret[Len(c.listing.ret)]
                   /\ ~c.loads[1].raised
                   /\ ~c.loads[1].ret =>
                         /\ c.reply = <<Embed("Error Loading", "red")>>
                         /\ todo_lists' = todo_lists
                   /\ c.loads[1].ret =>
                         c.reply = <<Embed("Last List Loaded", "green")>>]_vars

\* the newest of two files was loaded, and the two hold different stores
C22_Witness ==
    /\ cmdLast.cmd = "loadlast"
    /\ ~cmdLast.listing.raised
    /\ Len(cmdLast.listing.ret) = 2
    /\ LET first == cmdLast.listing.ret[1]
           last == cmdLast.listing.ret[2]
       IN  /\ files[first].ctime < files[last].ctime
           /\ files[first].content # files[last].content
           /\ files[first].content.valid
           /\ cmdLast.loads[1].filename = last
           /\ cmdLast.loads[1].ret

\* C13: the id add_task gives the new task differs from the id of every
\* other task of the channel's list at that moment.
C13_FreshId ==
    cmdLast.cmd = "add" =>
        LET tasks == todo_lists[cmdLast.channel_id]
        IN  \A i \in 1..(Len(tasks) - 1) : tasks[i].id # tasks[Len(tasks)].id

\* the commands that take a task number, and a call of one with a number
\* that is no position of the channel's list
Positional == {"done", "close", "log", "details", "edit"}
InRange(c) == 0 < c.task_number /\ c.task_number <= c.len_before
OutOfRange(c) == c.cmd \in Positional /\ ~InRange(c)

\* C14 as stated: for a task_number that is no position of the list, done,
\* close, log, details and edit send the error reply, change no task and no
\* list, and do not call save.
C14_ErrorReplyOutOfRange ==
    [][OutOfRange(cmdLast') =>
          /\ cmdLast'.reply = InvalidNumberReply
          /\ todo_lists' = todo_lists
          /\ files' = files
          /\ "save" \notin Range(cmdLast'.trace)]_vars

\* C14, amended: for a task_number that is no position of the list, done,
\* close, log, details and edit change no task and no list and do not call
\* save; they send the error reply when the channel's list has tasks, and
\* the "no tasks" info reply when the channel has no list or an empty one.
C14_OutOfRangePositions ==
    [][OutOfRange(cmdLast') =>
          /\ cmdLast'.reply =
                IF cmdLast'.len_before = 0 THEN NoTasksReply
                ELSE InvalidNumberReply
          /\ todo_lists' = todo_lists
          /\ files' = files
          /\ "save" \notin Range(cmdLast'.trace)]_vars

C14_Witness ==
    /\ cmdLast.cmd = "edit"
    /\ cmdLast.task_number = 0
    /\ cmdLast.len_before = 2
    /\ cmdLast.reply = InvalidNumberReply
    /\ 2 \in DOMAIN todo_lists

\* the calls of storage.save a command made
Saves(trace) == Cardinality({i \in 1..Len(trace) : trace[i] = "save"})
Succeeded(c) ==
    \/ c.cmd = "add"
    \/ c.cmd \in {"done", "close", "log", "edit"} /\ InRange(c)
    \/ c.cmd = "clear" /\ c.len_before > 0

\* C15: a mutating command that succeeds (add; done, close, log, edit with a
\* valid position; clear on a list with tasks) calls storage.save exactly
\* once, after the mutation, so that the snapshot holds the store as the
\* command left it; list, details, clear on an empty or absent list and the
\* commands with an invalid position never call save.
C15_SaveOncePerChange ==
    cmdLast.cmd # "init" =>
        IF Succeeded(cmdLast)
        THEN /\ Saves(cmdLast.trace) = 1
             /\ \E i, j \in 1..Len(cmdLast.trace) :
                   /\ i < j
                   /\ cmdLast.trace[i] = "mutate"
                   /\ cmdLast.trace[j] = "save"
             /\ stLast.op = "save"
             /\ files[stLast.ret].content = json_dump(todo_lists)
        ELSE Saves(cmdLast.trace) = 0

C15_Witness ==
    /\ cmdLast.cmd = "log"
    /\ cmdLast.task_number = 2
    /\ cmdLast.len_before = 2
    /\ Len(todo_lists[1][2].logs) = 1
    /\ Saves(cmdLast.trace) = 1

\* the creators of a channel's tasks, by position
Creators(lists, c) ==
    [q \in 1..Len(get(lists, c)) |-> get(lists, c)[q].creator]
Removes(c) == c.cmd \in {"done", "close"} /\ InRange(c)

\* C25: a task's creator never changes after construction: whatever command
\* runs and whoever runs it, every task that stays in its list keeps its
\* creator, a task removed by done or close still has the creator it had in
\* the list, and a task that add appends leaves the creators before it alone.
C25_CreatorImmutable ==
    [][\A c \in Channels :
          LET old == Creators(todo_lists, c)
              new == Creators(todo_lists', c)
          IN  IF c # cmdLast'.channel_id THEN new = old
              ELSE IF Removes(cmdLast')
              THEN /\ new = RemoveAt(old, cmdLast'.task_number)
                   /\ cmdLast'.removed[1].creator = old[cmdLast'.task_number]
              ELSE IF cmdLast'.cmd = "add"
              THEN SubSeq(new, 1, Len(old)) = old
              ELSE IF cmdLast'.cmd = "clear" THEN new = <<>>
              ELSE new = old]_vars

C25_Witness ==
    /\ cmdLast.cmd = "edit"
    /\ InRange(cmdLast)
    /\ LET t == todo_lists[1][cmdLast.task_number]
       IN  /\ t.title = LongText
           /\ t.internal_logs[Len(t.internal_logs)].user = "bob"
           /\ t.creator = "alice"

\* C36: channel isolation: add, done, close, log, edit, details, list and
\* clear invoked in a channel leave every other channel as it was: whether
\* it has a list, and the list's length, order and tasks, field by field.
C36_ChannelIsolation ==
    [][\A c \in Channels \ {cmdLast'.channel_id} :
          /\ (c \in DOMAIN todo_lists') = (c \in DOMAIN todo_lists)
          /\ get(todo_lists', c) = get(todo_lists, c)]_vars

\* a task was closed in channel 1 while channel 2 holds a task
C36_Witness ==
    /\ cmdLast.cmd = "close"
    /\ cmdLast.channel_id = 1
    /\ InRange(cmdLast)
    /\ cmdLast.len_before = 2
    /\ 2 \in DOMAIN todo_lists
    /\ Len(todo_lists[2]) = 1

\* C26: a channel's list keeps insertion order: add appends at the end, and
\* done or close at a valid position p leaves the previous list without its
\* p-th element, the tasks before p at their positions and each task
\* formerly at q > p now at q - 1.
C26_InsertionOrder ==
    [][LET c == cmdLast'.channel_id
           p == cmdLast'.task_number
           old == get(todo_lists, c)
           new == get(todo_lists', c)
       IN  /\ cmdLast'.cmd = "add" =>
                 /\ Len(new) = Len(old) + 1
                 /\ SubSeq(new, 1, Len(old)) = old
                 /\ new[Len(new)].title = ShortText
           /\ Removes(cmdLast') =>
                 /\ Len(new) = Len(old) - 1
                 /\ \A q \in 1..(p - 1) : new[q] = old[q]
                 /\ \A q \in (p + 1)..Len(old) : new[q - 1] = old[q]
                 /\ cmdLast'.removed[1].id = old[p].id]_vars

C26_Witness ==
    /\ cmdLast.cmd = "done"
    /\ cmdLast.task_number = 1
    /\ cmdLast.len_before = 3
    /\ Len(todo_lists[1]) = 2
    /\ todo_lists[1][1].id = 1
    /\ todo_lists[1][2].id = 2

(***************************************************************************)
(* Properties of the snapshot layer                                        *)
(***************************************************************************)
\* the (timestamp, user, action) triples of an audit trail
Triples(logs) ==
    [i \in 1..Len(logs) |-> <<logs[i].timestamp, logs[i].user, logs[i].action>>]

SameTask(a, b) ==
    /\ a.id = b.id
    /\ a.title = b.title
    /\ a.status = b.status
    /\ a.logs = b.logs
    /\ a.creator = b.creator
    /\ Triples(a.internal_logs) = Triples(b.internal_logs)

SameStore(a, b) ==
    /\ DOMAIN a = DOMAIN b
    /\ \A c \in DOMAIN a :
          /\ Len(a[c]) = Len(b[c])
          /\ \A i \in 1..Len(a[c]) : SameTask(a[c][i], b[c][i])

\* the snapshot name format: todo_lists_{session}_{date}_{time}[Z].json
WellFormedStamps ==
    {StrftimeFile(t) : t \in 0..MaxTime}
        \cup {OldStamp, "2021-01-01_00-00-00"}
StrictPattern(f) ==
    /\ Len(f) \in {5, 6}
    /\ f[1] = "todo_lists_"
    /\ f[2] # ""
    /\ f[3] = "_"
    /\ f[4] \in WellFormedStamps
    /\ Len(f) = 6 => f[5] = "Z"
    /\ f[Len(f)] = ".json"

\* C1: round trip.  Right after save() returned a filename, load() of that
\* filename, by any user and at any later time, succeeds and yields a store
\* with the same channel ids and, per channel, the same tasks in the same
\* order with the same id, title, status, logs, creator and the same audit
\* trail, entry by entry (timestamp, user, action).  The entries of a loaded
\* task are lists where those of a live task are tuples (field py); the
\* comparison is on their three components.
C1_RoundTrip ==
    stLast.op = "save" =>
        \A actor \in Actors, clock \in now..MaxTime :
            LET r == load_reconstruct(files, actor, clock, stLast.ret)
            IN  /\ r.ok
                /\ SameStore(load_commit(<<>>, r), todo_lists)

C1_Witness ==
    /\ stLast.op = "save"
    /\ \E c \in DOMAIN todo_lists : \E i \in 1..Len(todo_lists[c]) :
          /\ Len(todo_lists[c][i].internal_logs) >= 2
          /\ todo_lists[c][i].creator = "alice"

\* C2: when load() returns False, whatever made it fail and however far the
\* reconstruction had got, todo_lists is what it was before the call.
C2_FailedLoadKeepsStore ==
    [][(stLast'.op = "load" /\ ~stLast'.ret) => todo_lists' = todo_lists]_vars

C2_Witness ==
    /\ stLast.op = "load"
    /\ ~stLast.ret
    /\ stLast.filename \in DOMAIN files
    /\ Len(files[stLast.filename].content.data) >= 1
    /\ todo_lists # <<>>

\* C3: load() of a filename that does not match the snapshot name format
\* returns False and leaves the store as it was, even when a readable file
\* of valid JSON has that name.
C3_RejectsOtherNames ==
    [][(stLast'.op = "load" /\ ~StrictPattern(stLast'.filename)) =>
          (~stLast'.ret /\ todo_lists' = todo_lists)]_vars

\* C23: after a successful load, each task of the store whose record in the
\* file has an internal_logs array carries exactly that array as its audit
\* trail, entry by entry, without the entry the constructor made; a task
\* whose record has none carries exactly one entry, of kind task_created,
\* attributed to the user who invoked load.
C23_StoredTrailVerbatim ==
    (stLast.op = "load" /\ stLast.ret) =>
        LET data == files[stLast.filename].content.data
        IN  \A k \in 1..Len(data) :
               LET records == data[k][2]
                   tasks == todo_lists[IntOfStr(data[k][1])]
               IN  /\ Len(tasks) = Len(records)
                   /\ \A i \in 1..Len(records) :
                         IF "internal_logs" \in DOMAIN records[i]
                         THEN Triples(tasks[i].internal_logs)
                                  = records[i].internal_logs
                         ELSE /\ Len(tasks[i].internal_logs) = 1
                              /\ tasks[i].internal_logs[1].action = <<CREATED>>
                              /\ tasks[i].internal_logs[1].user = stLast.actor

\* a file written by save() with a task of two audit entries was loaded
C23_Witness ==
    /\ stLast.op = "load"
    /\ stLast.ret
    /\ stLast.actor = "bob"
    /\ \E c \in DOMAIN todo_lists : \E i \in 1..Len(todo_lists[c]) :
          LET t == todo_lists[c][i]
          IN  /\ Len(t.internal_logs) = 2
              /\ t.internal_logs[1].user = "alice"
              /\ t.internal_logs[1].action = <<CREATED>>
              /\ t.internal_logs[1].py = "list"

\* the keys of a file's object, as the integers load() makes of them
FileChannels(content) ==
    {IntOfStr(content.data[k][1]) : k \in 1..Len(content.data)}

\* C37: a successful load replaces the whole store rather than merging:
\* afterwards the channel ids of todo_lists are exactly the keys of the
\* file, and every channel has the tasks of the file and no others, so that
\* a channel that is not in the file is gone.
C37_LoadReplaces ==
    [][(stLast'.op = "load" /\ stLast'.ret /\ stLast' # stLast) =>
          LET content == files[stLast'.filename].content
          IN  /\ DOMAIN todo_lists' = FileChannels(content)
              /\ \A k \in 1..Len(content.data) :
                    Len(todo_lists'[IntOfStr(content.data[k][1])])
                        = Len(content.data[k][2])]_vars

\* the file loaded has a channel the last snapshot of this session has
\* not, and lacks one that snapshot has
C37_Witness ==
    /\ stLast.op = "load"
    /\ stLast.ret
    /\ DOMAIN todo_lists = {2}
    /\ saved # <<>>
    /\ FileChannels(saved[Len(saved)].content) = {1}
    /\ saved[Len(saved)].content.data[1][2] # <<>>

\* C39: every filename a successful save() returns is accepted by the rest
\* of the snapshot layer: right afterwards every answer of
\* list_saved_files() contains it, and load() of it returns True.
C39_SavedNameAccepted ==
    (stLast.op = "save" /\ ~stLast.raised) =>
        /\ \A listed \in list_saved_files(files) :
              \E i \in 1..Len(listed) : listed[i] = stLast.ret
        /\ \A actor \in Actors :
              LET r == load(files, todo_lists, actor, now, stLast.ret, fault)
              IN  ~r.raised /\ r.ret

\* a save into a directory that holds other files, of a store with a task
C39_Witness ==
    /\ stLast.op = "save"
    /\ ~stLast.raised
    /\ Cardinality(DOMAIN files) = 3
    /\ \E c \in DOMAIN todo_lists : Len(todo_lists[c]) >= 1

\* C27 as stated: load() checks the filename against the snapshot name
\* format before any file system access: for a filename that does not match
\* the format, no path is opened or read.
C27_ValidatesBeforeOpen ==
    (stLast.op = "load" /\ ~StrictPattern(stLast.filename)) =>
        stLast.opened = <<>>

\* C9: every successful save() creates a new file: after n saves the
\* directory holds n distinct snapshots, each with the content it was
\* written with.
C9_EverySaveNewFile ==
    /\ Cardinality({saved[i].name : i \in 1..Len(saved)}) = Len(saved)
    /\ \A i \in 1..Len(saved) :
          /\ saved[i].name \in DOMAIN files
          /\ files[saved[i].name].content = saved[i].content

\* C10: list_saved_files() returns only names that match the snapshot name
\* format.
C10_ListsOnlySnapshots ==
    stLast.op = "list_saved_files" =>
        \A i \in 1..Len(stLast.ret) : StrictPattern(stLast.ret[i])

\* the timestamps of WellFormedStamps from the earliest to the latest
StampOrder ==
    <<"2021-01-01_00-00-00", OldStamp>>
        \o [i \in 1..(MaxTime + 1) |-> StrftimeFile(i - 1)]
StampRank(stamp) == CHOOSE i \in 1..Len(StampOrder) : StampOrder[i] = stamp

\* C11: the sequence list_saved_files() returns is in ascending order of the
\* timestamp in each snapshot's name, whatever the order in which the files
\* were created; its last element carries the greatest timestamp.
C11_SortedByNameStamp ==
    stLast.op = "list_saved_files" =>
        \A i, j \in 1..Len(stLast.ret) :
            (i < j /\ StrictPattern(stLast.ret[i]) /\ StrictPattern(stLast.ret[j]))
                => StampRank(stLast.ret[i][4]) <= StampRank(stLast.ret[j][4])

\* C18: load() never raises: whatever the filename and whatever the file
\* holds (no file, a directory that cannot be read, invalid JSON, a wrong
\* schema), the call completes and returns a boolean.
C18_LoadNeverRaises ==
    stLast.op = "load" => (~stLast.raised /\ stLast.ret \in BOOLEAN)

\* a file of valid JSON with the wrong schema was loaded, with nothing wrong
\* with the directory
C18_Witness ==
    /\ stLast.op = "load"
    /\ ~stLast.raised
    /\ ~stLast.ret
    /\ fault = "none"
    /\ stLast.filename \in DOMAIN files
    /\ files[stLast.filename].content.valid

\* C19: when the write of save() fails, save() raises to its caller and
\* returns no filename, the store in memory is as it was, and the save
\* command answers with the error reply; no exception leaves the command.
C19_SaveFailurePropagates ==
    [][(stLast'.op = "save" /\ fault' # "none") =>
          /\ stLast'.raised
          /\ "ret" \notin DOMAIN stLast'
          /\ saved' = saved
          /\ todo_lists' = todo_lists
          /\ (cmdLast' # cmdLast /\ cmdLast'.cmd = "save") =>
                /\ cmdLast'.reply = <<Embed("Error Saving", "red")>>
                /\ ~cmdLast'.crashed]_vars

C19_Witness ==
    /\ stLast.op = "save"
    /\ stLast.raised
    /\ fault = "disk_full"
    /\ cmdLast.cmd = "save"
    /\ cmdLast.reply = <<Embed("Error Saving", "red")>>
    /\ todo_lists # <<>>

\* C20: list_saved_files() never fails: when data_dir cannot be read it
\* returns an empty sequence.
C20_ListNeverFails ==
    stLast.op = "list_saved_files" =>
        /\ ~stLast.raised
        /\ listdir_raises(fault) => stLast.ret = <<>>

====
